---- MODULE Spec2Model ----
(***************************************************************************)
(* Model of the text-to-record core of the Minneapolis 1900 city-directory *)
(* OCR pipeline: the Line Normalizer (src/ocr/text_cleaner.py), the        *)
(* Name-Boundary Analyzer (src/parsing/text_analyzer.py), the Field        *)
(* Extractor (src/parsing/entry_extractor.py) and the Entry Assembler      *)
(* (src/parsing/json_parser.py).                                           *)
(*                                                                         *)
(* A Python str is modelled as a sequence of one-character strings, so     *)
(* that splitting, stripping, searching and regular-expression matching    *)
(* are computed character by character, as the interpreter computes them.  *)
(***************************************************************************)
EXTENDS Integers, Sequences, FiniteSets, TLC

(***************************************************************************)
(* Characters and the str methods the code uses                            *)
(***************************************************************************)
LowerSeq == <<"a","b","c","d","e","f","g","h","i","j","k","l","m",
              "n","o","p","q","r","s","t","u","v","w","x","y","z">>
UpperSeq == <<"A","B","C","D","E","F","G","H","I","J","K","L","M",
              "N","O","P","Q","R","S","T","U","V","W","X","Y","Z">>
LowerCh == {LowerSeq[i] : i \in 1..26}
UpperCh == {UpperSeq[i] : i \in 1..26}
DigitCh == {"0","1","2","3","4","5","6","7","8","9"}
AlphaCh == LowerCh \cup UpperCh
AlnumCh == AlphaCh \cup DigitCh
\* \w of the re module
WordCh == AlnumCh \cup {"_"}
\* str.isspace(): what str.split() and str.strip() and \s treat as blank
SpaceCh == {" ", "\t"}

ToLowerMap == [c \in UpperCh |-> LowerSeq[CHOOSE i \in 1..26 : UpperSeq[i] = c]]
ToUpperMap == [c \in LowerCh |-> UpperSeq[CHOOSE i \in 1..26 : LowerSeq[i] = c]]
chr_lower(c) == IF c \in UpperCh THEN ToLowerMap[c] ELSE c
chr_upper(c) == IF c \in LowerCh THEN ToUpperMap[c] ELSE c

\* str.lower()
str_lower(s) == [i \in 1..Len(s) |-> chr_lower(s[i])]

\* s[a:b] with 1-based inclusive bounds; empty when b < a
Slice(s, a, b) == IF b < a THEN <<>> ELSE SubSeq(s, a, b)

\* s.startswith(w, at position p)
StartsAt(s, w, p) ==
  /\ p + Len(w) - 1 <= Len(s)
  /\ \A i \in 1..Len(w) : s[p + i - 1] = w[i]

\* Python evaluates the arguments of a call before the call: the value e of a call,
\* its argument x being evaluated first
After(x, e) == IF x = x THEN e ELSE e

\* the least and the greatest of a non-empty set of indices
Least(indices) == CHOOSE i \in indices : \A j \in indices : i <= j
Greatest(indices) == CHOOSE i \in indices : \A j \in indices : i >= j

\* the first of the indices found by a loop that stops at the first, 0 when none
FirstFound(found) == IF found = {} THEN 0 ELSE Least(found)

\* first index in lo..hi where w occurs in s, 0 when none
str_find_in(s, w, lo, hi) == FirstFound({k \in lo..hi : StartsAt(s, w, k)})

\* first index >= p where w occurs in s, 0 when none (str.find, 1-based)
str_find(s, w, p) == str_find_in(s, w, p, Len(s) - Len(w) + 1)

\* w in s
str_in(w, s) == str_find(s, w, 1) # 0

\* every character the model's texts are written in
PunctCh == {",", ".", "-", "'", "(", ")", "&", "~", "_", "!", ":", "*"}
AllCh == AlnumCh \cup PunctCh \cup SpaceCh

\* last index q >= p - 1 with s[p..q] in cs; first index q <= p + 1 with s[q..p] in cs
RunEndAt(s, p, stops) ==
  IF stops # {} THEN Least(stops) - 1 ELSE IF p <= Len(s) THEN Len(s) ELSE p - 1
RunEnd(s, cs, p) == RunEndAt(s, p, {q \in p..Len(s) : s[q] \notin cs})
RunStartAt(p, stops) ==
  IF stops # {} THEN Greatest(stops) + 1 ELSE IF p >= 1 THEN 1 ELSE p + 1
RunStart(s, cs, p) == RunStartAt(p, {q \in 1..p : s[q] \notin cs})

\* str.lstrip(cs), str.rstrip(cs), str.strip()
str_lstrip(s, cs) == IF Len(s) = 0 THEN s ELSE Slice(s, RunEnd(s, cs, 1) + 1, Len(s))
str_rstrip(s, cs) == IF Len(s) = 0 THEN s ELSE Slice(s, 1, RunStart(s, cs, Len(s)) - 1)
str_strip(s) == IF Len(s) = 0 THEN s ELSE str_rstrip(str_lstrip(s, SpaceCh), SpaceCh)

\* str.split(): the maximal runs of non-blank characters, from position p on
RECURSIVE str_split_ws(_, _)
str_split_ws(s, p) ==
  LET a == RunEnd(s, SpaceCh, p) + 1
      b == RunEnd(s, AllCh \ SpaceCh, a)
  IN  IF a > Len(s) THEN <<>>
      ELSE <<Slice(s, a, b)>> \o str_split_ws(s, b + 1)

\* str.split(sep, maxsplit) from position p on; maxsplit < 0 means no limit
RECURSIVE str_split(_, _, _, _)
str_split(s, sep, maxsplit, p) ==
  LET k == IF maxsplit = 0 THEN 0 ELSE str_find(s, sep, p)
  IN  IF k = 0 THEN <<Slice(s, p, Len(s))>>
      ELSE <<Slice(s, p, k - 1)>> \o str_split(s, sep, maxsplit - 1, k + Len(sep))

\* sep.join(parts)
RECURSIVE str_join(_, _)
str_join(sep, parts) ==
  IF Len(parts) = 0 THEN <<>>
  ELSE IF Len(parts) = 1 THEN parts[1]
  ELSE parts[1] \o sep \o str_join(sep, Tail(parts))

\* str.isalpha(), str.isdigit(): non-empty and every character in the class
str_isalpha(s) == Len(s) > 0 /\ \A i \in 1..Len(s) : s[i] \in AlphaCh
str_isdigit(s) == Len(s) > 0 /\ \A i \in 1..Len(s) : s[i] \in DigitCh

(***************************************************************************)
(* The re module: a backtracking matcher with Python's priorities (a       *)
(* greedy repeat tries the most repetitions first, an alternation its      *)
(* branches left to right).  A pattern is a sequence of nodes:             *)
(*   lit w          the characters w                                       *)
(*   set cs / nset  one character in / not in cs                           *)
(*   rep lo hi b    the sequence b, lo to hi times, greedy                 *)
(*   alt bs         one of the sequences bs                                *)
(*   gs g / ge g    start and end of capture group g                       *)
(*   wb, bol, eol   \b, ^, $                                               *)
(*   la bs          lookahead (?=...) for one of the sequences bs          *)
(* ic is re.IGNORECASE.                                                    *)
(***************************************************************************)
ReInf == 9999
ReLit(w) == [t |-> "lit", w |-> w]
ReSet(cs) == [t |-> "set", cs |-> cs]
ReNot(cs) == [t |-> "nset", cs |-> cs]
ReRep(lo, hi, b) == [t |-> "rep", lo |-> lo, hi |-> hi, b |-> b]
ReAlt(bs) == [t |-> "alt", bs |-> bs]
ReGs(g) == [t |-> "gs", g |-> g]
ReGe(g) == [t |-> "ge", g |-> g]
ReWb == [t |-> "wb"]
ReBol == [t |-> "bol"]
ReEol == [t |-> "eol"]
ReLa(bs) == [t |-> "la", bs |-> bs]
\* a repeat in progress: the body has matched c times, the last time from p0
ReCont(n, c, p0) == [t |-> "cont", n |-> n, c |-> c, p0 |-> p0]

\* A match object: ok (there is a match), b and e (its span, e exclusive), cap (the
\* spans of the groups) and i (the index, in the list tried, of the pattern that
\* matched; 0 when a single pattern was tried)
ReNoCap == <<<<0, 0>>, <<0, 0>>>>
ReFail == [ok |-> FALSE, b |-> 0, e |-> 0, cap |-> ReNoCap, i |-> 0]

\* the result of trying alternatives in order: the first if it matched, else the rest
ReOr(first, later) == IF first.ok THEN first ELSE later

\* the tries <<k, result>> that matched
ReOks(tries) == {t \in tries : t[2].ok}

\* of the tries <<k, result>> made in the order of k, the result of the first that
\* matched
ReFirstOk(oks) ==
  IF oks = {} THEN ReFail ELSE (CHOOSE t \in oks : \A o \in oks : t[1] <= o[1])[2]

\* of the tries <<k, result>> made in the descending order of k, the result of the
\* first that matched
ReLastOk(oks) ==
  IF oks = {} THEN ReFail ELSE (CHOOSE t \in oks : \A o \in oks : t[1] >= o[1])[2]

\* whether character c is matched by the one-character node n
ReChIn(c, n, ic) ==
  LET hit == c \in n.cs \/ (ic /\ (chr_lower(c) \in n.cs \/ chr_upper(c) \in n.cs))
  IN  IF n.t = "set" THEN hit ELSE ~hit

ReLitAt(s, ic, w, p) ==
  /\ p + Len(w) - 1 <= Len(s)
  /\ \A i \in 1..Len(w) :
       IF ic THEN chr_lower(s[p + i - 1]) = chr_lower(w[i]) ELSE s[p + i - 1] = w[i]

\* \b at position p: exactly one of s[p-1], s[p] is a word character
ReIsWb(s, p) ==
  LET before == p > 1 /\ s[p - 1] \in WordCh
      after == p <= Len(s) /\ s[p] \in WordCh
  IN  before # after

\* the first k in lo..hi for which the character at p + k - 1 is not matched by the
\* one-character node n, 0 when there is none
ReRunStop(s, ic, n, p, lo, hi) ==
  FirstFound({k \in lo..hi : ~ReChIn(s[p + k - 1], n, ic)})

\* the number of characters counted when the run stops at the k-th, all when k = 0
ReRunLength(stop, most) == IF stop = 0 THEN most ELSE stop - 1

\* number of characters from p on matched by the one-character node n, at most hi
ReRun(s, ic, n, p, hi) ==
  LET most == IF hi < Len(s) - p + 1 THEN hi ELSE Len(s) - p + 1
  IN  ReRunLength(ReRunStop(s, ic, n, p, 1, most), most)

RECURSIVE ReM(_, _, _, _, _)
RECURSIVE ReTryCounts(_, _, _, _, _, _, _)
RECURSIVE ReTryAlts(_, _, _, _, _, _, _, _)
RECURSIVE ReLook(_, _, _, _, _)

\* match the node sequence st at position p; the result's e is the end position
ReM(s, ic, st, p, cap) ==
  IF Len(st) = 0 THEN [ok |-> TRUE, b |-> p, e |-> p, cap |-> cap, i |-> 0]
  ELSE
    LET n == Head(st)
        rest == Tail(st)
    IN  CASE n.t = "lit" ->
               IF ReLitAt(s, ic, n.w, p) THEN ReM(s, ic, rest, p + Len(n.w), cap)
               ELSE ReFail
          [] n.t \in {"set", "nset"} ->
               IF p <= Len(s) /\ ReChIn(s[p], n, ic) THEN ReM(s, ic, rest, p + 1, cap)
               ELSE ReFail
          [] n.t = "rep" ->
               IF Len(n.b) = 1 /\ n.b[1].t \in {"set", "nset"}
               THEN ReTryCounts(s, ic, rest, p, cap, n.lo, ReRun(s, ic, n.b[1], p, n.hi))
               ELSE ReM(s, ic, <<ReCont(n, 0, 0 - 1)>> \o rest, p, cap)
          [] n.t = "cont" ->
               ReOr(IF n.c < n.n.hi /\ p # n.p0
                    THEN ReM(s, ic, n.n.b \o <<ReCont(n.n, n.c + 1, p)>> \o rest, p, cap)
                    ELSE ReFail,
                    IF n.c >= n.n.lo THEN ReM(s, ic, rest, p, cap) ELSE ReFail)
          [] n.t = "alt" -> ReTryAlts(s, ic, n.bs, rest, p, cap, 1, Len(n.bs))
          [] n.t = "gs" ->
               ReM(s, ic, rest, p, [cap EXCEPT ![n.g] = <<p, @[2]>>])
          [] n.t = "ge" ->
               ReM(s, ic, rest, p, [cap EXCEPT ![n.g] = <<@[1], p>>])
          [] n.t = "wb" -> IF ReIsWb(s, p) THEN ReM(s, ic, rest, p, cap) ELSE ReFail
          [] n.t = "bol" -> IF p = 1 THEN ReM(s, ic, rest, p, cap) ELSE ReFail
          [] n.t = "eol" -> IF p = Len(s) + 1 THEN ReM(s, ic, rest, p, cap) ELSE ReFail
          [] n.t = "la" ->
               IF ReLook(s, ic, n.bs, 1, p) THEN ReM(s, ic, rest, p, cap) ELSE ReFail

\* a greedy one-character repeat with lo..hi repetitions possible: the most
\* repetitions first, then fewer, down to lo
ReTryCounts(s, ic, rest, p, cap, lo, hi) ==
  IF lo = hi THEN ReM(s, ic, rest, p + lo, cap)
  ELSE ReLastOk(ReOks({<<c, ReM(s, ic, rest, p + c, cap)>> : c \in lo..hi}))

\* the branches lo..hi of an alternation, left to right
ReTryAlts(s, ic, bs, rest, p, cap, lo, hi) ==
  ReFirstOk(ReOks({<<k, ReM(s, ic, bs[k] \o rest, p, cap)>> : k \in lo..hi}))

ReLook(s, ic, bs, i, p) ==
  IF i > Len(bs) THEN FALSE
  ELSE ReM(s, ic, bs[i], p, ReNoCap).ok \/ ReLook(s, ic, bs, i + 1, p)

\* the match object of a match found from position q
ReSpan(r, q) == IF r.ok THEN [r EXCEPT !.b = q] ELSE ReFail

\* a match of the pattern that starts at position q
ReAt(re, s, ic, q) == ReSpan(ReM(s, ic, re, q, ReNoCap), q)

\* the leftmost match of the pattern that starts in lo..hi
re_search_in(re, s, ic, lo, hi) ==
  ReFirstOk(ReOks({<<q, ReAt(re, s, ic, q)>> : q \in lo..hi}))

\* re.search(pattern, s) from position p on: the leftmost match
re_search_from(re, s, ic, p) == re_search_in(re, s, ic, p, Len(s) + 1)

re_search(re, s, ic) == re_search_from(re, s, ic, 1)

\* match.group(g)
re_group(s, m, g) == Slice(s, m.cap[g][1], m.cap[g][2] - 1)

\* match.group(g) of a match, the empty string when there is no match
re_group_found(s, m, g) == IF m.ok THEN re_group(s, m, g) ELSE <<>>

\* of two matches, the one that starts first in the text
ReLeft(a, b) == IF ~a.ok THEN b ELSE IF ~b.ok THEN a ELSE IF b.b < a.b THEN b ELSE a

\* a loop over patterns[lo..hi] that would keep the match that starts first in s
\* whatever its place in the list
RECURSIVE re_search_leftmost(_, _, _, _, _)
re_search_leftmost(patterns, s, ic, lo, hi) ==
  IF lo > hi THEN ReFail
  ELSE IF lo = hi
  THEN (IF re_search(patterns[lo], s, ic).ok
        THEN [re_search(patterns[lo], s, ic) EXCEPT !.i = lo] ELSE ReFail)
  ELSE ReLeft(re_search_leftmost(patterns, s, ic, lo, (lo + hi) \div 2),
              re_search_leftmost(patterns, s, ic, (lo + hi) \div 2 + 1, hi))

\* the match of the first pattern of patterns[lo..hi] that is found in s, with its
\* index in the list: "for pattern in patterns: match = re.search(pattern, s);
\* if match: ... break"
ReIndexed(m, k) == IF m.ok THEN [m EXCEPT !.i = k] ELSE ReFail
re_search_first(patterns, s, ic, lo, hi) ==
  ReFirstOk(ReOks({<<k, ReIndexed(re_search(patterns[k], s, ic), k)>> : k \in lo..hi}))

\* the replacement of re.sub: a string, or the function lambda m: m.group(1)[0]
GroupInitial == <<"m.group(1)[0]">>
re_replacement(repl, s, m) == IF repl = GroupInitial THEN <<s[m.cap[1][1]]>> ELSE repl

\* re.sub(pattern, repl, s) for patterns that match no empty string: the part of the
\* result from position p of s on, m being the leftmost match from p on
RECURSIVE re_sub_from(_, _, _, _, _)
RECURSIVE re_sub_match(_, _, _, _, _, _)
re_sub_match(re, repl, s, ic, p, m) ==
  IF ~m.ok \/ m.e = m.b THEN Slice(s, p, Len(s))
  ELSE Slice(s, p, m.b - 1) \o re_replacement(repl, s, m) \o re_sub_from(re, repl, s, ic, m.e)

re_sub_from(re, repl, s, ic, p) ==
  re_sub_match(re, repl, s, ic, p, re_search_from(re, s, ic, p))

\* the string is evaluated before the call, as Python evaluates an argument; in
\* the empty string there is nothing to replace
re_sub(re, repl, s, ic) == IF Len(s) = 0 THEN s ELSE re_sub_from(re, repl, s, ic, 1)

(***************************************************************************)
(* Name-Boundary Analyzer: src/parsing/text_analyzer.py                    *)
(***************************************************************************)
\* TextAnalyzer.occupation_indicators
occupation_indicators ==
    {<<"c","l","k">>, <<"l","a","b">>, <<"t","m","s","t","r">>, <<"m","a","c","h">>,
    <<"e","n","g">>, <<"s","t","u","d","e","n","t">>, <<"m","o","v","e","d">>,
    <<"d","i","e","d">>}

looks_like_occupation(word) == str_lower(word) \in occupation_indicators

\* the test both branches of starts_with_surname apply to the candidate
SurnameCandidateOk(potential_surname) ==
  /\ Len(potential_surname) > 0
  /\ potential_surname[1] \in UpperCh
  /\ ~looks_like_occupation(potential_surname)
  /\ Len(potential_surname) > 1

\* starts_with_surname, from name_split = full_name.split() on
name_split_has_surname(name_split, line) ==
  IF Len(name_split) > 1 THEN SurnameCandidateOk(name_split[1])
  ELSE IF Len(name_split) = 1 /\ str_in(<<"s","e","e"," ","a","l","s","o">>, line)
       THEN SurnameCandidateOk(name_split[1])
  ELSE FALSE

\* starts_with_surname: full_name is words[0] of line.split(', ')
starts_with_surname(line) ==
  name_split_has_surname(str_split_ws(str_split(line, <<",", " ">>, 0 - 1, 1)[1], 1), line)

\* identify_widow_notation: widow_patterns, in the order they are tried
widow_patterns == <<
    \* \(widow\s+([^)]+)\)
    <<ReLit(<<"(","w","i","d","o","w">>), ReRep(1, ReInf, <<ReSet(SpaceCh)>>), ReGs(1), ReRep(1, ReInf,
      <<ReNot({")"})>>), ReGe(1), ReLit(<<")">>)>>,
    \* \bwid\s+([^,)]+)
    <<ReWb, ReLit(<<"w","i","d">>), ReRep(1, ReInf, <<ReSet(SpaceCh)>>), ReGs(1), ReRep(1, ReInf,
      <<ReNot({",", ")"})>>), ReGe(1)>>,
    \* \bwidow\s+([^,)]+)
    <<ReWb, ReLit(<<"w","i","d","o","w">>), ReRep(1, ReInf, <<ReSet(SpaceCh)>>), ReGs(1), ReRep(1,
      ReInf, <<ReNot({",", ")"})>>), ReGe(1)>>
  >>

Deceased == <<"d","e","c","e","a","s","e","d">>
DeceasedSuffix == <<" ","(","d","e","c","e","a","s","e","d",")">>

\* the spouse name with ' (deceased)' appended whatever it holds
widow_spouse_name_always(spouse_name) == spouse_name \o DeceasedSuffix

\* identify_widow_notation: what is returned for the spouse name of the match:
\* if 'deceased' not in spouse_name.lower(): spouse_name += ' (deceased)'
widow_spouse_name(spouse_name) ==
  IF ~str_in(Deceased, str_lower(spouse_name))
  THEN spouse_name \o DeceasedSuffix ELSE spouse_name

\* identify_widow_notation, match being that of the first pattern found: the empty
\* string stands for None
widow_of_match(text, match) ==
  IF match.ok THEN widow_spouse_name(str_strip(re_group(text, match, 1))) ELSE <<>>

identify_widow_notation(text) ==
  widow_of_match(text, re_search_first(widow_patterns, text, TRUE, 1, Len(widow_patterns)))

\* extract_residence_indicators: residence_patterns, each with its indicator
residence_patterns == <<
    \* \br\s+([^,]+)
    <<<<ReWb, ReLit(<<"r">>), ReRep(1, ReInf, <<ReSet(SpaceCh)>>), ReGs(1), ReRep(1, ReInf, <<ReNot({","})>>), ReGe(1)>>,
      <<"r","e","s","i","d","e","s">>>>,
    \* \bb\s+([^,]+)
    <<<<ReWb, ReLit(<<"b">>), ReRep(1, ReInf, <<ReSet(SpaceCh)>>), ReGs(1), ReRep(1, ReInf, <<ReNot({","})>>), ReGe(1)>>,
      <<"b","o","a","r","d","s">>>>,
    \* \brms\s+([^,]+)
    <<<<ReWb, ReLit(<<"r","m","s">>), ReRep(1, ReInf, <<ReSet(SpaceCh)>>), ReGs(1), ReRep(1, ReInf, <<ReNot({","})>>), ReGe(1)>>,
      <<"r","o","o","m","s">>>>,
    \* \bh\s+([^,]+)
    <<<<ReWb, ReLit(<<"h">>), ReRep(1, ReInf, <<ReSet(SpaceCh)>>), ReGs(1), ReRep(1, ReInf, <<ReNot({","})>>), ReGe(1)>>,
      <<"h","o","u","s","e">>>>
  >>

\* the patterns of residence_patterns, without their indicators
residence_regexes == [k \in 1..Len(residence_patterns) |-> residence_patterns[k][1]]

\* extract_residence_indicators, match being that of the first pattern found:
\* <<indicator, address>>, two empty strings when no pattern matched
residence_of_match(text_lower, match) ==
  IF match.ok
  THEN <<residence_patterns[match.i][2], str_strip(re_group(text_lower, match, 1))>>
  ELSE <<<<>>, <<>>>>

\* extract_residence_indicators, from text_lower = text.lower() on
residence_in_lower(text_lower) ==
  residence_of_match(text_lower,
    re_search_first(residence_regexes, text_lower, FALSE, 1, Len(residence_regexes)))

extract_residence_indicators(text) == residence_in_lower(str_lower(text))

\* \b(\d+[^,]*(?:av|st|blvd|rd)[^,]*)
RxFallbackAddress ==
    <<ReWb, ReGs(1), ReRep(1, ReInf, <<ReSet(DigitCh)>>), ReRep(0, ReInf, <<ReNot({","})>>),
      ReAlt(<<<<ReLit(<<"a","v">>)>>, <<ReLit(<<"s","t">>)>>,
      <<ReLit(<<"b","l","v","d">>)>>, <<ReLit(<<"r","d">>)>>>>), ReRep(0, ReInf,
      <<ReNot({","})>>), ReGe(1)>>

\* find_address_patterns, from text_lower = text.lower() on
address_in_lower(text_lower) ==
  str_strip(re_group_found(text_lower, re_search(RxFallbackAddress, text_lower, FALSE), 1))

find_address_patterns(text) == address_in_lower(str_lower(text))

\* split_name_and_details: the two keyword lists that end the name
name_stop_occupation_keywords ==
    {<<"p","o","r","t","e","r">>, <<"c","l","e","r","k">>, <<"l","a","b","o","r","e","r">>,
    <<"t","e","a","m","s","t","e","r">>, <<"m","a","c","h","i","n","i","s","t">>,
    <<"e","n","g","i","n","e","e","r">>, <<"s","a","l","e","s","m","a","n">>,
    <<"b","o","o","k","k","e","e","p","e","r">>, <<"c","a","r","p","e","n","t","e","r">>,
    <<"c","o","n","d","u","c","t","o","r">>, <<"w","a","i","t","e","r">>,
    <<"s","t","u","d","e","n","t">>, <<"s","e","a","m","s","t","r","e","s","s">>,
    <<"n","u","r","s","e">>, <<"c","o","o","k">>, <<"m","i","l","l","w","r","i","g","h","t">>,
    <<"c","u","t","t","e","r">>, <<"c","l","k">>, <<"l","a","b">>, <<"t","m","s","t","r">>,
    <<"m","a","c","h">>, <<"e","n","g">>, <<"s","l","s","m","n">>, <<"b","k","p","r">>,
    <<"c","a","r","p">>, <<"c","o","n","d">>,
    <<"p","h","o","t","o","g","r","a","p","h","e","r">>, <<"d","o","m","e","s","t","i","c">>,
    <<"s","u","p","e","r","i","n","t","e","n","d","e","n","t">>,
    <<"p","h","y","s","i","c","i","a","n">>, <<"d","r","i","v","e","r">>,
    <<"l","e","t","t","e","r">>, <<"c","a","r","r","i","e","r">>,
    <<"h","o","s","t","l","e","r">>, <<"l","a","w","y","e","r">>,
    <<"t","r","a","v","e","l","i","n","g">>, <<"a","g","e","n","t">>,
    <<"m","a","n","a","g","e","r">>, <<"m","n","e","g","r">>, <<"m","n","f","r","s">>,
    <<"p","e","d","d","l","e","r">>, <<"a","p","p","r","e","n","t","i","c","e">>,
    <<"g","r","o","c","e","r">>, <<"c","o","n","f","e","c","t","i","o","n","e","r">>,
    <<"w","i","r","e","m","a","n">>, <<"f","o","r","e","m","a","n">>,
    <<"j","e","w","e","l","e","r">>, <<"h","o","u","s","e">>, <<"m","o","v","e","r">>,
    <<"s","t","e","n","o","g","r","a","p","h","e","r">>, <<"o","p","e","r","a","t","o","r">>,
    <<"b","a","r","t","e","n","d","e","r">>, <<"c","a","r">>,
    <<"r","e","p","a","i","r","e","r">>, <<"w","i","t","h">>, <<"d","i","e","d">>,
    <<"m","o","v","e","d">>, <<"w","i","d","o","w">>}
location_indicators ==
    {<<"r","e","s","i","d","e","n","c","e">>, <<"b","o","a","r","d","s">>, <<"r","m","s">>,
    <<"t","e","l","e","p","h","o","n","e">>, <<"s","a","m","e">>,
    <<"b","u","i","l","d","i","n","g">>, <<"b","l","d","g">>, <<"a","v","e","n","u","e">>,
    <<"s","t","r","e","e","t">>, <<"a","v">>, <<"s","t">>, <<"n","o","r","t","h">>,
    <<"s","o","u","t","h">>, <<"e","a","s","t">>, <<"w","e","s","t">>}

\* a word that is taken into the first name
IsNamePart(word) ==
  LET word_for_check == str_lstrip(str_rstrip(word, {","}), {"'"})
  IN  /\ str_isalpha(word_for_check)
      /\ word_for_check[1] \in UpperCh

\* a word at which the for loop of split_name_and_details breaks
NameStops(word) ==
  LET word_clean == str_lower(str_rstrip(word, {","}))
  IN  \/ word_clean \in name_stop_occupation_keywords
      \/ word_clean \in location_indicators
      \/ "(" \in {word[j] : j \in 1..Len(word)}
      \/ ~IsNamePart(word)

\* index of the first word the loop breaks at, Len(words) + 1 when it runs to the end
RECURSIVE NameBreak(_, _)
NameBreak(words, i) ==
  IF i > Len(words) \/ NameStops(words[i]) THEN i ELSE NameBreak(words, i + 1)

\* split_name_and_details, the loop having stopped at the k-th word
split_words_at(words, k) ==
  <<str_join(<<" ">>, [i \in 1..(k - 1) |-> str_lstrip(str_rstrip(words[i], {","}), {"'"})]),
    str_join(<<" ">>, Slice(words, k, Len(words)))>>

\* split_name_and_details, from words = text.split() on
split_words(text, words) ==
  IF Len(words) = 0 THEN <<<<>>, text>> ELSE split_words_at(words, NameBreak(words, 1))

\* split_name_and_details, from text = text.lstrip(', ') on
split_stripped(text) == split_words(text, str_split_ws(text, 1))

\* returns <<first_name, remaining_text>>
split_name_and_details(text0) == split_stripped(str_lstrip(text0, {",", " "}))

(***************************************************************************)
(* Abbreviation Table: config/settings.py, in dictionary order             *)
(***************************************************************************)
ABBREVIATIONS == <<
    <<<<"a","c","c","t">>, <<"a","c","c","o","u","n","t","a","n","t">>>>,
    <<<<"a","d","v">>, <<"a","d","v","e","r","t","i","s","e","m","e","n","t">>>>,
    <<<<"a","g","t">>, <<"a","g","e","n","t">>>>,
    <<<<"a","p","p","r">>, <<"a","p","p","r","e","n","t","i","c","e">>>>,
    <<<<"a","s","s","n">>, <<"a","s","s","o","c","i","a","t","i","o","n">>>>,
    <<<<"a","s","s","t">>, <<"a","s","s","i","s","t","a","n","t">>>>,
    <<<<"a","v">>, <<"a","v","e","n","u","e">>>>,
    <<<<"b">>, <<"b","o","a","r","d","s">>>>,
    <<<<"b","a","r","t","n","d","r">>, <<"b","a","r","t","e","n","d","e","r">>>>,
    <<<<"b","e","t">>, <<"b","e","t","w","e","e","n">>>>,
    <<<<"b","k","b","n","d","r">>, <<"b","o","o","k","b","i","n","d","e","r">>>>,
    <<<<"b","k","p","r">>, <<"b","o","o","k","k","e","e","p","e","r">>>>,
    <<<<"b","l","k","s","m","i","t","h">>, <<"b","l","a","c","k","s","m","i","t","h">>>>,
    <<<<"b","l","d","g">>, <<"b","u","i","l","d","i","n","g">>>>,
    <<<<"b","l","k">>, <<"b","l","o","c","k">>>>,
    <<<<"b","o","u","l">>, <<"b","o","u","l","e","v","a","r","d">>>>,
    <<<<"c","a","b","m","k","r">>, <<"c","a","b","i","n","e","t"," ","m","a","k","e","r">>>>,
    <<<<"c","a","r","p">>, <<"c","a","r","p","e","n","t","e","r">>>>,
    <<<<"c","i","v"," ","e","n","g">>, <<"c","i","v","i","l"," ","e","n","g","i","n","e","e","r">>>>,
    <<<<"c","l","k">>, <<"c","l","e","r","k">>>>,
    <<<<"c","l","n","r">>, <<"c","l","e","a","n","e","r">>>>,
    <<<<"c","o","l","l","r">>, <<"c","o","l","l","e","c","t","o","r">>>>,
    <<<<"c","o","m","m","r">>, <<"c","o","m","m","i","s","s","i","o","n","e","r">>>>,
    <<<<"c","o","m","n">>, <<"c","o","m","m","i","s","s","i","o","n">>>>,
    <<<<"c","o","m","p">>, <<"c","o","m","p","o","s","i","t","o","r">>>>,
    <<<<"c","o","n","d">>, <<"c","o","n","d","u","c","t","o","r">>>>,
    <<<<"c","o","n","f">>, <<"c","o","n","f","e","c","t","i","o","n","e","r">>>>,
    <<<<"c","o","n","t","r">>, <<"c","o","n","t","r","a","c","t","o","r">>>>,
    <<<<"c","o","r">>, <<"c","o","r","n","e","r">>>>,
    <<<<"c","t">>, <<"c","o","u","r","t">>>>,
    <<<<"d","e","p">>, <<"d","e","p","u","t","y">>>>,
    <<<<"d","e","p","t">>, <<"d","e","p","a","r","t","m","e","n","t">>>>,
    <<<<"d","o","m">>, <<"d","o","m","e","s","t","i","c">>>>,
    <<<<"e">>, <<"e","a","s","t">>>>,
    <<<<"e","l","e","v">>, <<"e","l","e","v","a","t","o","r">>>>,
    <<<<"e","n","g">>, <<"e","n","g","i","n","e","e","r">>>>,
    <<<<"e","n","g","r">>, <<"e","n","g","r","a","v","e","r">>>>,
    <<<<"e","x","p">>, <<"e","x","p","r","e","s","s">>>>,
    <<<<"e"," ","s">>, <<"e","a","s","t"," ","s","i","d","e">>>>,
    <<<<"f","r","t">>, <<"f","r","e","i","g","h","t">>>>,
    <<<<"g","e","n">>, <<"g","e","n","e","r","a","l">>>>,
    <<<<"i","n","s">>, <<"i","n","s","u","r","a","n","c","e">>>>,
    <<<<"i","n","s","p","t","r">>, <<"i","n","s","p","e","c","t","o","r">>>>,
    <<<<"l","a","b">>, <<"l","a","b","o","r","e","r">>>>,
    <<<<"m","a","c","h">>, <<"m","a","c","h","i","n","i","s","t">>>>,
    <<<<"m","e","c","h">>, <<"m","e","c","h","a","n","i","c">>>>,
    <<<<"m","e","s","s","r">>, <<"m","e","s","s","e","n","g","e","r">>>>,
    <<<<"m","k","r">>, <<"m","a","k","e","r">>>>,
    <<<<"m","n","f","r">>, <<"m","a","n","u","f","a","c","t","u","r","e","r">>>>,
    <<<<"m","n","g","r">>, <<"m","a","n","a","g","e","r">>>>,
    <<<<"n">>, <<"n","o","r","t","h">>>>,
    <<<<"n","r">>, <<"n","e","a","r">>>>,
    <<<<"n"," ","e">>, <<"n","o","r","t","h","e","a","s","t">>>>,
    <<<<"n"," ","s">>, <<"n","o","r","t","h"," ","s","i","d","e">>>>,
    <<<<"n","w">>, <<"n","o","r","t","h","w","e","s","t">>>>,
    <<<<"o","p","p">>, <<"o","p","p","o","s","i","t","e">>>>,
    <<<<"o","p","r">>, <<"o","p","e","r","a","t","o","r">>>>,
    <<<<"p","h","o","t","o","g","r">>, <<"p","h","o","t","o","g","r","a","p","h","e","r">>>>,
    <<<<"p","h","y","s">>, <<"p","h","y","s","i","c","i","a","n">>>>,
    <<<<"p","k">>, <<"p","a","r","k">>>>,
    <<<<"p","k","r">>, <<"p","a","c","k","e","r">>>>,
    <<<<"p","l">>, <<"p","l","a","c","e">>>>,
    <<<<"P"," ","O">>, <<"P","o","s","t","o","f","f","i","c","e">>>>,
    <<<<"p","r","e","s">>, <<"p","r","e","s","i","d","e","n","t">>>>,
    <<<<"p","r","i","n">>, <<"p","r","i","n","c","i","p","a","l">>>>,
    <<<<"p","r","o","f">>, <<"p","r","o","f","e","s","s","o","r">>>>,
    <<<<"p","r","o","p","r">>, <<"p","r","o","p","r","i","e","t","o","r">>>>,
    <<<<"p","u","b">>, <<"p","u","b","l","i","s","h","e","r">>>>,
    <<<<"r">>, <<"r","e","s","i","d","e","n","c","e">>>>,
    <<<<"r","d">>, <<"r","o","a","d">>>>,
    <<<<"r","e","a","l"," ","e","s","t">>, <<"r","e","a","l"," ","e","s","t","a","t","e">>>>,
    <<<<"r","e","p","r">>, <<"r","e","p","a","i","r","e","r">>>>,
    <<<<"r","e","t">>, <<"r","e","t","a","i","l">>>>,
    <<<<"R"," ","M"," ","S">>, <<"r","a","i","l","w","a","y"," ","m","a","i","l"," ","s","e","r","v","i","c","e">>>>,
    <<<<"s">>, <<"s","o","u","t","h">>>>,
    <<<<"s","e">>, <<"s","o","u","t","h","e","a","s","t">>>>,
    <<<<"s"," ","s">>, <<"s","o","u","t","h"," ","s","i","d","e">>>>,
    <<<<"s"," ","w">>, <<"s","o","u","t","h","w","e","s","t">>>>,
    <<<<"s","l","s","m","n">>, <<"s","a","l","e","s","m","a","n">>>>,
    <<<<"s","m","s","t","r","s">>, <<"s","e","a","m","s","t","r","e","s","s">>>>,
    <<<<"s","o","l","r">>, <<"s","o","l","i","c","i","t","o","r">>>>,
    <<<<"s","t","e","n","o","g","r">>, <<"s","t","e","n","o","g","r","a","p","h","e","r">>>>,
    <<<<"s","u","p","t">>, <<"s","u","p","e","r","i","n","t","e","n","d","e","n","t">>>>,
    <<<<"t","c","h","r">>, <<"t","e","a","c","h","e","r">>>>,
    <<<<"t","e","l">>, <<"t","e","l","e","p","h","o","n","e">>>>,
    <<<<"t","m","s","t","r">>, <<"t","e","a","m","s","t","e","r">>>>,
    <<<<"t","n","d","r">>, <<"t","e","n","d","e","r">>>>,
    <<<<"t","r","a","v">>, <<"t","r","a","v","e","l","i","n","g">>>>,
    <<<<"u","p","h","o","l","s","t","r">>, <<"u","p","h","o","l","s","t","e","r","e","r">>>>,
    <<<<"v","e","t"," ","s","u","r","g">>, <<"v","e","t","e","r","i","n","a","r","y"," ","s","u","r","g","e","o","n">>>>,
    <<<<"w">>, <<"w","e","s","t">>>>,
    <<<<"W","a","s","h","n">>, <<"W","a","s","h","i","n","g","t","o","n">>>>,
    <<<<"w","h","o","l">>, <<"w","h","o","l","e","s","a","l","e">>>>,
    <<<<"w","i","d">>, <<"w","i","d","o","w">>>>,
    <<<<"w"," ","s">>, <<"w","e","s","t"," ","s","i","d","e">>>>
  >>

\* ABBREVIATIONS.get(key, default)
abbreviations_get(key, default) ==
  IF \E k \in 1..Len(ABBREVIATIONS) : ABBREVIATIONS[k][1] = key
  THEN ABBREVIATIONS[CHOOSE k \in 1..Len(ABBREVIATIONS) : ABBREVIATIONS[k][1] = key][2]
  ELSE default

(***************************************************************************)
(* Record template: JSON_OUTPUT_FORMAT of config/settings.py.  None is the *)
(* value of an unset WorkAddress, Telephone or PageNumber.                 *)
(***************************************************************************)
None == <<"None">>

\* the address structure with null for the residence indicator
AddressWithNull ==
  [StreetNumber |-> <<>>, StreetName |-> <<>>, ApartmentOrUnit |-> <<>>,
   ResidenceIndicator |-> None]

\* the value of "HomeAddress" in JSON_OUTPUT_FORMAT, which is also what
\* parse_address_components starts from
EmptyAddress ==
  [StreetNumber |-> <<>>, StreetName |-> <<>>, ApartmentOrUnit |-> <<>>,
   ResidenceIndicator |-> <<>>]

JSON_OUTPUT_FORMAT ==
  [FirstName |-> <<>>, LastName |-> <<>>, Spouse |-> <<>>, Occupation |-> <<>>,
   CompanyName |-> <<>>, HomeAddress |-> EmptyAddress, WorkAddress |-> None,
   Telephone |-> None,
   DirectoryName |-> <<"M","i","n","n","e","a","p","o","l","i","s"," ","1","9","0","0">>,
   PageNumber |-> None]

(***************************************************************************)
(* Field Extractor: src/parsing/entry_extractor.py                         *)
(***************************************************************************)
\* re.match(pattern, s): a match at the start of s
re_match(re, s, ic) == ReM(s, ic, re, 1, ReNoCap).ok

\* entry["_parsing_notes"].append(note)
AddNote(entry, note) == [entry EXCEPT !["_parsing_notes"] = Append(@, note)]

\* the patterns used to tidy a text after a part of it was cut out
RxSpaces == <<ReRep(1, ReInf, <<ReSet(SpaceCh)>>)>>
RxDoubleComma == <<ReLit(<<",">>), ReRep(0, ReInf, <<ReSet(SpaceCh)>>), ReLit(<<",">>)>>
RxEdgeCommas ==
    <<ReAlt(<<<<ReBol, ReRep(0, ReInf, <<ReSet(SpaceCh)>>), ReLit(<<",">>), ReRep(0, ReInf,
    <<ReSet(SpaceCh)>>)>>, <<ReRep(0, ReInf, <<ReSet(SpaceCh)>>), ReLit(<<",">>), ReRep(0, ReInf,
    <<ReSet(SpaceCh)>>), ReEol>>>>)>>
RxEdgeCommaSpace ==
    <<ReAlt(<<<<ReBol, ReRep(1, ReInf, <<ReSet(SpaceCh \cup {","})>>)>>, <<ReRep(1, ReInf,
    <<ReSet(SpaceCh \cup {","})>>), ReEol>>>>)>>

\* _extract_occupation_and_get_remaining: occupation_patterns, in list order
occupation_patterns == <<
    \* \b(clerk|clk)\b
    <<ReWb, ReGs(1), ReAlt(<<<<ReLit(<<"c","l","e","r","k">>)>>, <<ReLit(<<"c","l","k">>)>>>>), ReGe(1),
      ReWb>>,
    \* \b(laborer|lab)\b
    <<ReWb, ReGs(1), ReAlt(<<<<ReLit(<<"l","a","b","o","r","e","r">>)>>, <<ReLit(<<"l","a","b">>)>>>>),
      ReGe(1), ReWb>>,
    \* \b(teamster|tmstr)\b
    <<ReWb, ReGs(1), ReAlt(<<<<ReLit(<<"t","e","a","m","s","t","e","r">>)>>,
      <<ReLit(<<"t","m","s","t","r">>)>>>>), ReGe(1), ReWb>>,
    \* \b(machinist|mach)\b
    <<ReWb, ReGs(1), ReAlt(<<<<ReLit(<<"m","a","c","h","i","n","i","s","t">>)>>,
      <<ReLit(<<"m","a","c","h">>)>>>>), ReGe(1), ReWb>>,
    \* \b(engineer|eng)\b
    <<ReWb, ReGs(1), ReAlt(<<<<ReLit(<<"e","n","g","i","n","e","e","r">>)>>,
      <<ReLit(<<"e","n","g">>)>>>>), ReGe(1), ReWb>>,
    \* \b(salesman|slsmn)\b
    <<ReWb, ReGs(1), ReAlt(<<<<ReLit(<<"s","a","l","e","s","m","a","n">>)>>,
      <<ReLit(<<"s","l","s","m","n">>)>>>>), ReGe(1), ReWb>>,
    \* \b(bookkeeper|bkpr)\b
    <<ReWb, ReGs(1), ReAlt(<<<<ReLit(<<"b","o","o","k","k","e","e","p","e","r">>)>>,
      <<ReLit(<<"b","k","p","r">>)>>>>), ReGe(1), ReWb>>,
    \* \b(carpenter|carp)\b
    <<ReWb, ReGs(1), ReAlt(<<<<ReLit(<<"c","a","r","p","e","n","t","e","r">>)>>,
      <<ReLit(<<"c","a","r","p">>)>>>>), ReGe(1), ReWb>>,
    \* \b(conductor|cond)\b
    <<ReWb, ReGs(1), ReAlt(<<<<ReLit(<<"c","o","n","d","u","c","t","o","r">>)>>,
      <<ReLit(<<"c","o","n","d">>)>>>>), ReGe(1), ReWb>>,
    \* \b(porter)\b
    <<ReWb, ReGs(1), ReLit(<<"p","o","r","t","e","r">>), ReGe(1), ReWb>>,
    \* \b(waiter)\b
    <<ReWb, ReGs(1), ReLit(<<"w","a","i","t","e","r">>), ReGe(1), ReWb>>,
    \* \b(student)\b
    <<ReWb, ReGs(1), ReLit(<<"s","t","u","d","e","n","t">>), ReGe(1), ReWb>>,
    \* \b(seamstress|smstrs)\b
    <<ReWb, ReGs(1), ReAlt(<<<<ReLit(<<"s","e","a","m","s","t","r","e","s","s">>)>>,
      <<ReLit(<<"s","m","s","t","r","s">>)>>>>), ReGe(1), ReWb>>,
    \* \b(nurse)\b
    <<ReWb, ReGs(1), ReLit(<<"n","u","r","s","e">>), ReGe(1), ReWb>>,
    \* \b(cook)\b
    <<ReWb, ReGs(1), ReLit(<<"c","o","o","k">>), ReGe(1), ReWb>>,
    \* \b(millwright)\b
    <<ReWb, ReGs(1), ReLit(<<"m","i","l","l","w","r","i","g","h","t">>), ReGe(1), ReWb>>,
    \* \b(cutter)\b
    <<ReWb, ReGs(1), ReLit(<<"c","u","t","t","e","r">>), ReGe(1), ReWb>>,
    \* \b(photographer)\b
    <<ReWb, ReGs(1), ReLit(<<"p","h","o","t","o","g","r","a","p","h","e","r">>), ReGe(1), ReWb>>,
    \* \b(domestic)\b
    <<ReWb, ReGs(1), ReLit(<<"d","o","m","e","s","t","i","c">>), ReGe(1), ReWb>>,
    \* \b(superintendent)\b
    <<ReWb, ReGs(1), ReLit(<<"s","u","p","e","r","i","n","t","e","n","d","e","n","t">>), ReGe(1), ReWb>>,
    \* \b(physician)\b
    <<ReWb, ReGs(1), ReLit(<<"p","h","y","s","i","c","i","a","n">>), ReGe(1), ReWb>>,
    \* \b(driver)\b
    <<ReWb, ReGs(1), ReLit(<<"d","r","i","v","e","r">>), ReGe(1), ReWb>>,
    \* \b(letter\s+carrier)\b
    <<ReWb, ReGs(1), ReLit(<<"l","e","t","t","e","r">>), ReRep(1, ReInf, <<ReSet(SpaceCh)>>),
      ReLit(<<"c","a","r","r","i","e","r">>), ReGe(1), ReWb>>,
    \* \b(hostler)\b
    <<ReWb, ReGs(1), ReLit(<<"h","o","s","t","l","e","r">>), ReGe(1), ReWb>>,
    \* \b(lawyer)\b
    <<ReWb, ReGs(1), ReLit(<<"l","a","w","y","e","r">>), ReGe(1), ReWb>>,
    \* \b(traveling\s+agent)\b
    <<ReWb, ReGs(1), ReLit(<<"t","r","a","v","e","l","i","n","g">>), ReRep(1, ReInf,
      <<ReSet(SpaceCh)>>), ReLit(<<"a","g","e","n","t">>), ReGe(1), ReWb>>,
    \* \b(manager|mnegr)\b
    <<ReWb, ReGs(1), ReAlt(<<<<ReLit(<<"m","a","n","a","g","e","r">>)>>,
      <<ReLit(<<"m","n","e","g","r">>)>>>>), ReGe(1), ReWb>>,
    \* \b(manufacturer\'?s\s+agent|mnfrs\s+agent)\b
    <<ReWb, ReGs(1), ReAlt(<<<<ReLit(<<"m","a","n","u","f","a","c","t","u","r","e","r">>), ReRep(0, 1,
      <<ReLit(<<"'">>)>>), ReLit(<<"s">>), ReRep(1, ReInf, <<ReSet(SpaceCh)>>),
      ReLit(<<"a","g","e","n","t">>)>>, <<ReLit(<<"m","n","f","r","s">>), ReRep(1, ReInf,
      <<ReSet(SpaceCh)>>), ReLit(<<"a","g","e","n","t">>)>>>>), ReGe(1), ReWb>>,
    \* \b(peddler)\b
    <<ReWb, ReGs(1), ReLit(<<"p","e","d","d","l","e","r">>), ReGe(1), ReWb>>,
    \* \b(apprentice)\b
    <<ReWb, ReGs(1), ReLit(<<"a","p","p","r","e","n","t","i","c","e">>), ReGe(1), ReWb>>,
    \* \b(grocer)\b
    <<ReWb, ReGs(1), ReLit(<<"g","r","o","c","e","r">>), ReGe(1), ReWb>>,
    \* \b(confectioner)\b
    <<ReWb, ReGs(1), ReLit(<<"c","o","n","f","e","c","t","i","o","n","e","r">>), ReGe(1), ReWb>>,
    \* \b(wireman)\b
    <<ReWb, ReGs(1), ReLit(<<"w","i","r","e","m","a","n">>), ReGe(1), ReWb>>,
    \* \b(foreman)\b
    <<ReWb, ReGs(1), ReLit(<<"f","o","r","e","m","a","n">>), ReGe(1), ReWb>>,
    \* \b(jeweler)\b
    <<ReWb, ReGs(1), ReLit(<<"j","e","w","e","l","e","r">>), ReGe(1), ReWb>>,
    \* \b(house\s+mover)\b
    <<ReWb, ReGs(1), ReLit(<<"h","o","u","s","e">>), ReRep(1, ReInf, <<ReSet(SpaceCh)>>),
      ReLit(<<"m","o","v","e","r">>), ReGe(1), ReWb>>,
    \* \b(stenographer)\b
    <<ReWb, ReGs(1), ReLit(<<"s","t","e","n","o","g","r","a","p","h","e","r">>), ReGe(1), ReWb>>,
    \* \b(operator)\b
    <<ReWb, ReGs(1), ReLit(<<"o","p","e","r","a","t","o","r">>), ReGe(1), ReWb>>,
    \* \b(bartender)\b
    <<ReWb, ReGs(1), ReLit(<<"b","a","r","t","e","n","d","e","r">>), ReGe(1), ReWb>>,
    \* \b(car\s+repairer)\b
    <<ReWb, ReGs(1), ReLit(<<"c","a","r">>), ReRep(1, ReInf, <<ReSet(SpaceCh)>>),
      ReLit(<<"r","e","p","a","i","r","e","r">>), ReGe(1), ReWb>>,
    \* \b(civil\s+engineer)\b
    <<ReWb, ReGs(1), ReLit(<<"c","i","v","i","l">>), ReRep(1, ReInf, <<ReSet(SpaceCh)>>),
      ReLit(<<"e","n","g","i","n","e","e","r">>), ReGe(1), ReWb>>,
    \* \b(partner)\b
    <<ReWb, ReGs(1), ReLit(<<"p","a","r","t","n","e","r">>), ReGe(1), ReWb>>,
    \* \b(employee)\b
    <<ReWb, ReGs(1), ReLit(<<"e","m","p","l","o","y","e","e">>), ReGe(1), ReWb>>,
    \* \b(with)\b
    <<ReWb, ReGs(1), ReLit(<<"w","i","t","h">>), ReGe(1), ReWb>>
  >>

\* ABBREVIATIONS.get(occupation.lower(), occupation)
expanded_occupation(occupation) == abbreviations_get(str_lower(occupation), occupation)

\* the text with the occupation pattern removed and commas and spaces tidied
text_without(pattern, text) ==
  str_strip(re_sub(RxSpaces, <<" ">>,
    re_sub(RxEdgeCommas, <<>>,
      re_sub(RxDoubleComma, <<",">>, re_sub(pattern, <<>>, text, TRUE), FALSE),
      FALSE),
    FALSE))

\* the loop over occupation_patterns, match being that of the first pattern found in
\* the text: it sets the occupation if there is none yet and is removed from the
\* text; returns <<entry, remaining_text>>
occupation_of_match(entry, text, match) ==
  IF match.ok /\ Len(entry.Occupation) = 0
  THEN <<[entry EXCEPT !.Occupation = expanded_occupation(re_group(text, match, 1))],
         text_without(occupation_patterns[match.i], text)>>
  ELSE <<entry, text>>

extract_occupation_and_get_remaining(entry, text) ==
  occupation_of_match(entry, text,
    re_search_first(occupation_patterns, text, TRUE, 1, Len(occupation_patterns)))

\* _extract_company_name: the clean-up substitutions made before matching
company_text_clean(text) ==
  \* ^\s*(boards|residence|rms|rooms|same|telephone)\s*,?\s*
  re_sub(<<ReBol, ReRep(0, ReInf, <<ReSet(SpaceCh)>>), ReGs(1),
           ReAlt(<<<<ReLit(<<"b","o","a","r","d","s">>)>>,
           <<ReLit(<<"r","e","s","i","d","e","n","c","e">>)>>, <<ReLit(<<"r","m","s">>)>>,
           <<ReLit(<<"r","o","o","m","s">>)>>, <<ReLit(<<"s","a","m","e">>)>>,
           <<ReLit(<<"t","e","l","e","p","h","o","n","e">>)>>>>), ReGe(1), ReRep(0, ReInf,
           <<ReSet(SpaceCh)>>), ReRep(0, 1, <<ReLit(<<",">>)>>), ReRep(0, ReInf,
           <<ReSet(SpaceCh)>>)>>,
         <<>>,
    \* \bEx\s+press\b
    re_sub(<<ReWb, ReLit(<<"E","x">>), ReRep(1, ReInf, <<ReSet(SpaceCh)>>),
             ReLit(<<"p","r","e","s","s">>), ReWb>>,
           <<"E","x","p","r","e","s","s">>,
      \* \bnorth\s*east\b
      re_sub(<<ReWb, ReLit(<<"n","o","r","t","h">>), ReRep(0, ReInf, <<ReSet(SpaceCh)>>),
               ReLit(<<"e","a","s","t">>), ReWb>>,
             <<"N", " ", "E">>,
        \* \bsouth\s*east\b
        re_sub(<<ReWb, ReLit(<<"s","o","u","t","h">>), ReRep(0, ReInf, <<ReSet(SpaceCh)>>),
                 ReLit(<<"e","a","s","t">>), ReWb>>,
               <<"S", " ", "E">>,
          re_sub(<<ReLit(<<"B","E","l","i","e","l">>)>>, <<"E","l","i","e","l">>, text, FALSE),
          TRUE),
        TRUE),
      TRUE),
    TRUE)

specific_companies == <<
    \* \b(LymanEliel Drug Co|Lyman\s*Eliel Drug Co)\b
    <<ReWb, ReGs(1),
      ReAlt(<<<<ReLit(<<"L","y","m","a","n","E","l","i","e","l"," ","D","r","u","g"," ","C","o">>)>>,
      <<ReLit(<<"L","y","m","a","n">>), ReRep(0, ReInf, <<ReSet(SpaceCh)>>),
      ReLit(<<"E","l","i","e","l"," ","D","r","u","g"," ","C","o">>)>>>>), ReGe(1), ReWb>>,
    \* \b(Wells,?\s*Fargo\s*&\s*Co(?:\s+Express)?)\b
    <<ReWb, ReGs(1), ReLit(<<"W","e","l","l","s">>), ReRep(0, 1, <<ReLit(<<",">>)>>), ReRep(0, ReInf,
      <<ReSet(SpaceCh)>>), ReLit(<<"F","a","r","g","o">>), ReRep(0, ReInf, <<ReSet(SpaceCh)>>),
      ReLit(<<"&">>), ReRep(0, ReInf, <<ReSet(SpaceCh)>>), ReLit(<<"C","o">>), ReRep(0, 1,
      <<ReRep(1, ReInf, <<ReSet(SpaceCh)>>), ReLit(<<"E","x","p","r","e","s","s">>)>>), ReGe(1),
      ReWb>>,
    \* \b(S\s*E\s*Olson\s*Co)\b
    <<ReWb, ReGs(1), ReLit(<<"S">>), ReRep(0, ReInf, <<ReSet(SpaceCh)>>), ReLit(<<"E">>), ReRep(0,
      ReInf, <<ReSet(SpaceCh)>>), ReLit(<<"O","l","s","o","n">>), ReRep(0, ReInf,
      <<ReSet(SpaceCh)>>), ReLit(<<"C","o">>), ReGe(1), ReWb>>,
    \* \b(Fire-Proof\.?\s*Door\s*Co)\b
    <<ReWb, ReGs(1), ReLit(<<"F","i","r","e","-","P","r","o","o","f">>), ReRep(0, 1,
      <<ReLit(<<".">>)>>), ReRep(0, ReInf, <<ReSet(SpaceCh)>>), ReLit(<<"D","o","o","r">>), ReRep(0,
      ReInf, <<ReSet(SpaceCh)>>), ReLit(<<"C","o">>), ReGe(1), ReWb>>,
    \* \b(American\s*Standard\s*Food\s*Co)\b
    <<ReWb, ReGs(1), ReLit(<<"A","m","e","r","i","c","a","n">>), ReRep(0, ReInf, <<ReSet(SpaceCh)>>),
      ReLit(<<"S","t","a","n","d","a","r","d">>), ReRep(0, ReInf, <<ReSet(SpaceCh)>>),
      ReLit(<<"F","o","o","d">>), ReRep(0, ReInf, <<ReSet(SpaceCh)>>), ReLit(<<"C","o">>), ReGe(1),
      ReWb>>,
    \* \b(Lillibridge-Bremner\s*Factory)\b
    <<ReWb, ReGs(1),
      ReLit(<<"L","i","l","l","i","b","r","i","d","g","e","-","B","r","e","m","n","e","r">>),
      ReRep(0, ReInf, <<ReSet(SpaceCh)>>), ReLit(<<"F","a","c","t","o","r","y">>), ReGe(1), ReWb>>,
    \* \b(J\s*R\s*Wagner)\b
    <<ReWb, ReGs(1), ReLit(<<"J">>), ReRep(0, ReInf, <<ReSet(SpaceCh)>>), ReLit(<<"R">>), ReRep(0,
      ReInf, <<ReSet(SpaceCh)>>), ReLit(<<"W","a","g","n","e","r">>), ReGe(1), ReWb>>,
    \* \b(W\s*I\s*Gray\s*&\s*Co)\b
    <<ReWb, ReGs(1), ReLit(<<"W">>), ReRep(0, ReInf, <<ReSet(SpaceCh)>>), ReLit(<<"I">>), ReRep(0,
      ReInf, <<ReSet(SpaceCh)>>), ReLit(<<"G","r","a","y">>), ReRep(0, ReInf, <<ReSet(SpaceCh)>>),
      ReLit(<<"&">>), ReRep(0, ReInf, <<ReSet(SpaceCh)>>), ReLit(<<"C","o">>), ReGe(1), ReWb>>,
    \* \b(H\s*C\s*Akeley\s*Lbr\s*Co)\b
    <<ReWb, ReGs(1), ReLit(<<"H">>), ReRep(0, ReInf, <<ReSet(SpaceCh)>>), ReLit(<<"C">>), ReRep(0,
      ReInf, <<ReSet(SpaceCh)>>), ReLit(<<"A","k","e","l","e","y">>), ReRep(0, ReInf,
      <<ReSet(SpaceCh)>>), ReLit(<<"L","b","r">>), ReRep(0, ReInf, <<ReSet(SpaceCh)>>),
      ReLit(<<"C","o">>), ReGe(1), ReWb>>,
    \* \b(M\s*V\s*Tel(?:ephone)?\s*Co)\b
    <<ReWb, ReGs(1), ReLit(<<"M">>), ReRep(0, ReInf, <<ReSet(SpaceCh)>>), ReLit(<<"V">>), ReRep(0,
      ReInf, <<ReSet(SpaceCh)>>), ReLit(<<"T","e","l">>), ReRep(0, 1,
      <<ReLit(<<"e","p","h","o","n","e">>)>>), ReRep(0, ReInf, <<ReSet(SpaceCh)>>),
      ReLit(<<"C","o">>), ReGe(1), ReWb>>,
    \* \b(N\s*S\s*Clothing\s*Co)\b
    <<ReWb, ReGs(1), ReLit(<<"N">>), ReRep(0, ReInf, <<ReSet(SpaceCh)>>), ReLit(<<"S">>), ReRep(0,
      ReInf, <<ReSet(SpaceCh)>>), ReLit(<<"C","l","o","t","h","i","n","g">>), ReRep(0, ReInf,
      <<ReSet(SpaceCh)>>), ReLit(<<"C","o">>), ReGe(1), ReWb>>,
    \* \b(M\s*S\s*Stabler)\b
    <<ReWb, ReGs(1), ReLit(<<"M">>), ReRep(0, ReInf, <<ReSet(SpaceCh)>>), ReLit(<<"S">>), ReRep(0,
      ReInf, <<ReSet(SpaceCh)>>), ReLit(<<"S","t","a","b","l","e","r">>), ReGe(1), ReWb>>,
    \* \b(U\s+of\s+M)\b
    <<ReWb, ReGs(1), ReLit(<<"U">>), ReRep(1, ReInf, <<ReSet(SpaceCh)>>), ReLit(<<"o","f">>), ReRep(1,
      ReInf, <<ReSet(SpaceCh)>>), ReLit(<<"M">>), ReGe(1), ReWb>>,
    \* \b(Dealers\'?\s*Fuel\s*Co)\b
    <<ReWb, ReGs(1), ReLit(<<"D","e","a","l","e","r","s">>), ReRep(0, 1, <<ReLit(<<"'">>)>>), ReRep(0,
      ReInf, <<ReSet(SpaceCh)>>), ReLit(<<"F","u","e","l">>), ReRep(0, ReInf, <<ReSet(SpaceCh)>>),
      ReLit(<<"C","o">>), ReGe(1), ReWb>>,
    \* \b(Coolidge\s*Fuel\s*&\s*Supply\s*Co)\b
    <<ReWb, ReGs(1), ReLit(<<"C","o","o","l","i","d","g","e">>), ReRep(0, ReInf, <<ReSet(SpaceCh)>>),
      ReLit(<<"F","u","e","l">>), ReRep(0, ReInf, <<ReSet(SpaceCh)>>), ReLit(<<"&">>), ReRep(0,
      ReInf, <<ReSet(SpaceCh)>>), ReLit(<<"S","u","p","p","l","y">>), ReRep(0, ReInf,
      <<ReSet(SpaceCh)>>), ReLit(<<"C","o">>), ReGe(1), ReWb>>,
    \* \b(Abel\s*&\s*Co)\b
    <<ReWb, ReGs(1), ReLit(<<"A","b","e","l">>), ReRep(0, ReInf, <<ReSet(SpaceCh)>>), ReLit(<<"&">>),
      ReRep(0, ReInf, <<ReSet(SpaceCh)>>), ReLit(<<"C","o">>), ReGe(1), ReWb>>,
    \* \b(Lina\s*Christianson)\b
    <<ReWb, ReGs(1), ReLit(<<"L","i","n","a">>), ReRep(0, ReInf, <<ReSet(SpaceCh)>>),
      ReLit(<<"C","h","r","i","s","t","i","a","n","s","o","n">>), ReGe(1), ReWb>>
  >>

general_patterns == <<
    \* \b([A-Z][A-Za-z\s&,.-]*(?:Co|Inc|Ltd|Corp|Company|Corporation|Association|Assn))\b
    <<ReWb, ReGs(1), ReSet(UpperCh), ReRep(0, ReInf,
      <<ReSet(UpperCh \cup LowerCh \cup SpaceCh \cup {"&", ",", ".", "-"})>>),
      ReAlt(<<<<ReLit(<<"C","o">>)>>, <<ReLit(<<"I","n","c">>)>>, <<ReLit(<<"L","t","d">>)>>,
      <<ReLit(<<"C","o","r","p">>)>>, <<ReLit(<<"C","o","m","p","a","n","y">>)>>,
      <<ReLit(<<"C","o","r","p","o","r","a","t","i","o","n">>)>>,
      <<ReLit(<<"A","s","s","o","c","i","a","t","i","o","n">>)>>, <<ReLit(<<"A","s","s","n">>)>>>>),
      ReGe(1), ReWb>>,
    \* \b([A-Z][A-Za-z\s&,.-]*(?:Drug|Medical|Pharmacy)\s+Co)\b
    <<ReWb, ReGs(1), ReSet(UpperCh), ReRep(0, ReInf,
      <<ReSet(UpperCh \cup LowerCh \cup SpaceCh \cup {"&", ",", ".", "-"})>>),
      ReAlt(<<<<ReLit(<<"D","r","u","g">>)>>, <<ReLit(<<"M","e","d","i","c","a","l">>)>>,
      <<ReLit(<<"P","h","a","r","m","a","c","y">>)>>>>), ReRep(1, ReInf, <<ReSet(SpaceCh)>>),
      ReLit(<<"C","o">>), ReGe(1), ReWb>>,
    \* \b([A-Z][A-Za-z\s&,.-]*(?:Express|Transport|Railway|Ry)(?:\s+Co)?)\b
    <<ReWb, ReGs(1), ReSet(UpperCh), ReRep(0, ReInf,
      <<ReSet(UpperCh \cup LowerCh \cup SpaceCh \cup {"&", ",", ".", "-"})>>),
      ReAlt(<<<<ReLit(<<"E","x","p","r","e","s","s">>)>>,
      <<ReLit(<<"T","r","a","n","s","p","o","r","t">>)>>,
      <<ReLit(<<"R","a","i","l","w","a","y">>)>>, <<ReLit(<<"R","y">>)>>>>), ReRep(0, 1, <<ReRep(1,
      ReInf, <<ReSet(SpaceCh)>>), ReLit(<<"C","o">>)>>), ReGe(1), ReWb>>,
    \* \b([A-Z][A-Za-z\s&,.-]*(?:Factory|Manufacturing|Mfg|Lbr)(?:\s+Co)?)\b
    <<ReWb, ReGs(1), ReSet(UpperCh), ReRep(0, ReInf,
      <<ReSet(UpperCh \cup LowerCh \cup SpaceCh \cup {"&", ",", ".", "-"})>>),
      ReAlt(<<<<ReLit(<<"F","a","c","t","o","r","y">>)>>,
      <<ReLit(<<"M","a","n","u","f","a","c","t","u","r","i","n","g">>)>>,
      <<ReLit(<<"M","f","g">>)>>, <<ReLit(<<"L","b","r">>)>>>>), ReRep(0, 1, <<ReRep(1, ReInf,
      <<ReSet(SpaceCh)>>), ReLit(<<"C","o">>)>>), ReGe(1), ReWb>>,
    \* \b([A-Z][A-Za-z\s&,.-]*Food\s+Co)\b
    <<ReWb, ReGs(1), ReSet(UpperCh), ReRep(0, ReInf,
      <<ReSet(UpperCh \cup LowerCh \cup SpaceCh \cup {"&", ",", ".", "-"})>>),
      ReLit(<<"F","o","o","d">>), ReRep(1, ReInf, <<ReSet(SpaceCh)>>), ReLit(<<"C","o">>), ReGe(1),
      ReWb>>,
    \* \b([A-Z][A-Za-z\s&,.-]*(?:Door|Building|Construction)\s+Co)\b
    <<ReWb, ReGs(1), ReSet(UpperCh), ReRep(0, ReInf,
      <<ReSet(UpperCh \cup LowerCh \cup SpaceCh \cup {"&", ",", ".", "-"})>>),
      ReAlt(<<<<ReLit(<<"D","o","o","r">>)>>, <<ReLit(<<"B","u","i","l","d","i","n","g">>)>>,
      <<ReLit(<<"C","o","n","s","t","r","u","c","t","i","o","n">>)>>>>), ReRep(1, ReInf,
      <<ReSet(SpaceCh)>>), ReLit(<<"C","o">>), ReGe(1), ReWb>>,
    \* \b([A-Z][A-Za-z\s&,.-]*(?:Supply|Fuel|Paint|Clothing|Shoe|Life)(?:\s+Co|Company)?)\b
    <<ReWb, ReGs(1), ReSet(UpperCh), ReRep(0, ReInf,
      <<ReSet(UpperCh \cup LowerCh \cup SpaceCh \cup {"&", ",", ".", "-"})>>),
      ReAlt(<<<<ReLit(<<"S","u","p","p","l","y">>)>>, <<ReLit(<<"F","u","e","l">>)>>,
      <<ReLit(<<"P","a","i","n","t">>)>>, <<ReLit(<<"C","l","o","t","h","i","n","g">>)>>,
      <<ReLit(<<"S","h","o","e">>)>>, <<ReLit(<<"L","i","f","e">>)>>>>), ReRep(0, 1,
      <<ReAlt(<<<<ReRep(1, ReInf, <<ReSet(SpaceCh)>>), ReLit(<<"C","o">>)>>,
      <<ReLit(<<"C","o","m","p","a","n","y">>)>>>>)>>), ReGe(1), ReWb>>,
    \* \b([A-Z]\s+[A-Z]\s+[A-Z][a-z]+)\b
    <<ReWb, ReGs(1), ReSet(UpperCh), ReRep(1, ReInf, <<ReSet(SpaceCh)>>), ReSet(UpperCh), ReRep(1,
      ReInf, <<ReSet(SpaceCh)>>), ReSet(UpperCh), ReRep(1, ReInf, <<ReSet(LowerCh)>>), ReGe(1),
      ReWb>>,
    \* \b([A-Z][a-z]+\s+[A-Z][a-z]+)\b
    <<ReWb, ReGs(1), ReSet(UpperCh), ReRep(1, ReInf, <<ReSet(LowerCh)>>), ReRep(1, ReInf,
      <<ReSet(SpaceCh)>>), ReSet(UpperCh), ReRep(1, ReInf, <<ReSet(LowerCh)>>), ReGe(1), ReWb>>
  >>

\* words a general-pattern candidate must not be
company_stopwords ==
    {<<"r","e","s","i","d","e","n","c","e">>, <<"b","o","a","r","d","s">>, <<"s","a","m","e">>,
    <<"t","e","l","e","p","h","o","n","e">>, <<"m","o","v","e","d">>, <<"d","i","e","d">>,
    <<"n","o","r","t","h">>, <<"s","o","u","t","h">>, <<"e","a","s","t">>, <<"w","e","s","t">>}

RxExPress == <<ReLit(<<"E","x">>), ReRep(1, ReInf, <<ReSet(SpaceCh)>>), ReLit(<<"p","r","e","s","s">>)>>
RxDots == <<ReRep(1, ReInf, <<ReLit(<<".">>)>>)>>
RxLeadingDigits == <<ReBol, ReRep(1, ReInf, <<ReSet(DigitCh)>>)>>
RxAllLower == <<ReBol, ReRep(1, ReInf, <<ReSet(LowerCh \cup SpaceCh)>>), ReEol>>

\* the first of two optional values (<<v>> or <<>>) that is present
OrElse(found, later) == IF found # <<>> THEN found ELSE later

\* the loop over specific_companies, match being that of the first pattern found:
\* <<company>>, or <<>> when no pattern matched
specific_company_of(text_clean, match) ==
  IF match.ok
  THEN <<re_sub(RxDots, <<>>,
           re_sub(RxExPress, <<"E","x","p","r","e","s","s">>,
             re_sub(RxSpaces, <<" ">>, str_strip(re_group(text_clean, match, 1)), FALSE),
             FALSE),
           FALSE)>>
  ELSE <<>>

specific_company(text_clean) ==
  specific_company_of(text_clean,
    re_search_first(specific_companies, text_clean, TRUE, 1, Len(specific_companies)))

\* the validation of a name captured by a general pattern: <<company>> or <<>>
valid_company(company_name) ==
  IF /\ Len(company_name) > 2
     /\ str_lower(company_name) \notin company_stopwords
     /\ ~re_match(RxLeadingDigits, company_name, FALSE)
     /\ ~re_match(RxAllLower, company_name, FALSE)
  THEN <<company_name>> ELSE <<>>

\* the company a match of a general pattern gives, <<>> when there is no match or
\* the name is not valid
general_company_of(text_clean, match) ==
  IF match.ok
  THEN valid_company(
         re_sub(RxSpaces, <<" ">>,
           re_sub(RxEdgeCommaSpace, <<>>, str_strip(re_group(text_clean, match, 1)), FALSE),
           FALSE))
  ELSE <<>>

\* the loop over general_patterns from the i-th on: <<company>> or <<>>
RECURSIVE general_company_from(_, _)
general_company_from(text_clean, i) ==
  IF i > Len(general_patterns) THEN <<>>
  ELSE OrElse(general_company_of(text_clean, re_search(general_patterns[i], text_clean, TRUE)),
              general_company_from(text_clean, i + 1))

\* _extract_company_name, what the two loops leave in the entry
with_company(entry, found) ==
  IF Len(found) > 0 THEN [entry EXCEPT !.CompanyName = found[1]] ELSE entry

\* _extract_company_name, from the specific patterns on
company_in_clean(entry, text_clean) ==
  with_company(entry, OrElse(specific_company(text_clean), general_company_from(text_clean, 1)))

extract_company_name(entry, text) ==
  IF Len(text) = 0 \/ Len(str_strip(text)) = 0 THEN entry
  ELSE company_in_clean(entry, company_text_clean(text))

NoteWidow == <<"I","d","e","n","t","i","f","i","e","d"," ","a","s"," ","w","i","d","o","w">>
NoteOriginal == <<"O","r","i","g","i","n","a","l"," ","t","e","x","t",":"," ">>
NoteAfter == <<"A","f","t","e","r"," ","o","c","c","u","p","a","t","i","o","n"," ","r","e","m","o","v","a","l",":"," ">>
WidowOccupation == <<"w","i","d","o","w">>

\* entry["_parsing_notes"].append(note) for each of the notes
AddNotes(entry, notes) == [entry EXCEPT !["_parsing_notes"] = @ \o notes]

\* parse_occupation_and_employer after the widow check, occ being the pair
\* <<entry, remaining_text>> that _extract_occupation_and_get_remaining left
employer_of_remaining(text, occ) ==
  AddNotes(IF Len(occ[2]) > 0 THEN extract_company_name(occ[1], occ[2]) ELSE occ[1],
           IF occ[2] # text THEN <<NoteOriginal \o text, NoteAfter \o occ[2]>>
           ELSE <<NoteOriginal \o text>>)

\* parse_occupation_and_employer, from the widow check on
occupation_or_widow(entry, text, widow_spouse) ==
  IF Len(widow_spouse) > 0
  THEN AddNote([entry EXCEPT !.Spouse = widow_spouse, !.Occupation = WidowOccupation],
               NoteWidow)
  ELSE employer_of_remaining(text, extract_occupation_and_get_remaining(entry, text))

parse_occupation_and_employer(entry, text) ==
  IF Len(text) = 0 THEN entry
  ELSE occupation_or_widow(entry, text, identify_widow_notation(text))

\* if first_name: entry["FirstName"] = first_name
with_first_name(entry, first_name) ==
  IF Len(first_name) > 0 THEN [entry EXCEPT !.FirstName = first_name] ELSE entry

\* parse_name_and_details, split being <<first_name, remaining_text>>
details_of_split(entry, split) ==
  IF Len(split[2]) > 0
  THEN parse_occupation_and_employer(with_first_name(entry, split[1]), split[2])
  ELSE with_first_name(entry, split[1])

parse_name_and_details(entry, text) ==
  IF Len(text) = 0 THEN entry
  ELSE details_of_split(entry, split_name_and_details(text))

\* s with the occurrence of old at position k replaced by new, s when k = 0
str_replace_at(s, old, new, k) ==
  IF k = 0 THEN s ELSE Slice(s, 1, k - 1) \o new \o Slice(s, k + Len(old), Len(s))

\* str.replace(old, new, 1): the first occurrence only
str_replace_first(s, old, new) == str_replace_at(s, old, new, str_find(s, old, 1))

\* parse_address_components: residence_indicators, in dictionary order
component_residence_indicators == <<
    <<<<"b","o","a","r","d","s">>, <<"b">>>>,
    <<<<"r","e","s","i","d","e","n","c","e">>, <<"r">>>>,
    <<<<"r","m","s">>, <<"r","m","s">>>>,
    <<<<"r","o","o","m","s">>, <<"r","m","s">>>>,
    <<<<"d","o","m">>, <<"d","o","m">>>>,
    <<<<"s","a","m","e">>, <<"s","a","m","e">>>>
  >>

\* rf'\b{word}\b'
RxWord(word) == <<ReWb, ReLit(word), ReWb>>

\* index of the first indicator word contained in the lower-cased address, 0 when none
RECURSIVE component_indicator_from(_, _)
component_indicator_from(address_lower, i) ==
  IF i > Len(component_residence_indicators) THEN 0
  ELSE IF str_in(component_residence_indicators[i][1], address_lower) THEN i
  ELSE component_indicator_from(address_lower, i + 1)

RxSingleLetter == <<ReWb, ReGs(1), ReSet({"r", "b", "h"}), ReGe(1), ReWb, ReLa(<<<<ReSet(SpaceCh)>>, <<ReEol>>>>)>>
RxStreetNumber == <<ReWb, ReGs(1), ReRep(3, 4, <<ReSet(DigitCh)>>), ReGe(1), ReWb>>
apt_patterns == <<
    \* (flat)\s*(\d+)
    <<ReGs(1), ReLit(<<"f","l","a","t">>), ReGe(1), ReRep(0, ReInf, <<ReSet(SpaceCh)>>), ReGs(2),
      ReRep(1, ReInf, <<ReSet(DigitCh)>>), ReGe(2)>>,
    \* (apt|apartment)\s*(\d+)
    <<ReGs(1), ReAlt(<<<<ReLit(<<"a","p","t">>)>>,
      <<ReLit(<<"a","p","a","r","t","m","e","n","t">>)>>>>), ReGe(1), ReRep(0, ReInf,
      <<ReSet(SpaceCh)>>), ReGs(2), ReRep(1, ReInf, <<ReSet(DigitCh)>>), ReGe(2)>>,
    \* (room|rm|rms)\s*(\d+)
    <<ReGs(1), ReAlt(<<<<ReLit(<<"r","o","o","m">>)>>, <<ReLit(<<"r","m">>)>>,
      <<ReLit(<<"r","m","s">>)>>>>), ReGe(1), ReRep(0, ReInf, <<ReSet(SpaceCh)>>), ReGs(2), ReRep(1,
      ReInf, <<ReSet(DigitCh)>>), ReGe(2)>>,
    \* (\d+)\s*(apt|apartment|flat|room|rm)
    <<ReGs(1), ReRep(1, ReInf, <<ReSet(DigitCh)>>), ReGe(1), ReRep(0, ReInf, <<ReSet(SpaceCh)>>),
      ReGs(2), ReAlt(<<<<ReLit(<<"a","p","t">>)>>,
      <<ReLit(<<"a","p","a","r","t","m","e","n","t">>)>>, <<ReLit(<<"f","l","a","t">>)>>,
      <<ReLit(<<"r","o","o","m">>)>>, <<ReLit(<<"r","m">>)>>>>), ReGe(2)>>
  >>
RxAvenue == <<ReWb, ReGs(1), ReAlt(<<<<ReLit(<<"a","v","e","n","u","e">>)>>, <<ReLit(<<"a","v">>)>>>>), ReGe(1), ReWb, ReRep(0, 1, <<ReLit(<<".">>)>>)>>
RxStreet == <<ReWb, ReGs(1), ReAlt(<<<<ReLit(<<"s","t","r","e","e","t">>)>>, <<ReLit(<<"s","t">>)>>>>), ReGe(1), ReWb, ReRep(0, 1, <<ReLit(<<".">>)>>)>>
RxCompass ==
    <<ReWb, ReGs(1), ReAlt(<<<<ReLit(<<"n","o","r","t","h">>)>>, <<ReLit(<<"s","o","u","t","h">>)>>,
    <<ReLit(<<"e","a","s","t">>)>>, <<ReLit(<<"w","e","s","t">>)>>>>), ReGe(1), ReWb>>
RxTrailingDots == <<ReRep(1, ReInf, <<ReLit(<<".">>)>>), ReEol>>

\* f"{g1} {g2}" of the two groups of an apartment match, the number last
apartment_of_groups(g1, g2) ==
  IF str_isdigit(g1) THEN g2 \o <<" ">> \o g1 ELSE g1 \o <<" ">> \o g2

\* the apartment designation of a match of one of apt_patterns
apartment_unit(address, apt_match) ==
  apartment_of_groups(re_group(address, apt_match, 1), re_group(address, apt_match, 2))

\* the clean-up of what is left of the address: the street name
clean_street_name(address) ==
  str_strip(re_sub(RxSpaces, <<" ">>,
    re_sub(RxTrailingDots, <<>>,
      re_sub(RxCompass, GroupInitial,
        re_sub(RxStreet, <<"s","t">>,
          re_sub(RxAvenue, <<"a","v">>,
            re_sub(RxEdgeCommaSpace, <<>>,
              str_strip(re_sub(RxSpaces, <<" ">>, address, FALSE)),
              FALSE),
            TRUE),
          TRUE),
        TRUE),
      FALSE),
    FALSE))

\* parse_address_components, from the apartment patterns on: apt_match is the match
\* of the first of apt_patterns found in the address
address_after_apartment(address, indicator, number, apt_match) ==
  IF apt_match.ok
  THEN [StreetNumber |-> number,
        StreetName |->
          clean_street_name(str_strip(re_sub(apt_patterns[apt_match.i], <<>>, address, TRUE))),
        ApartmentOrUnit |-> apartment_unit(address, apt_match),
        ResidenceIndicator |-> indicator]
  ELSE [StreetNumber |-> number,
        StreetName |-> clean_street_name(address),
        ApartmentOrUnit |-> <<>>,
        ResidenceIndicator |-> indicator]

\* parse_address_components, from the street number on: number is group 1 of the
\* match of \b(\d{3,4})\b, empty when there is no match
address_after_number(address, indicator, number) ==
  address_after_apartment(address, indicator, number,
    re_search_first(apt_patterns, address, TRUE, 1, Len(apt_patterns)))

address_street_number(address, indicator, number) ==
  address_after_number(
    IF Len(number) > 0 THEN str_strip(str_replace_first(address, number, <<>>)) ELSE address,
    indicator, number)

\* parse_address_components, from the single letter indicators on: letter is group 1
\* of single_letter_match, empty when there is no match
address_after_letter(address, indicator) ==
  address_street_number(address, indicator,
    re_group_found(address, re_search(RxStreetNumber, address, FALSE), 1))

address_single_letter(address, indicator, letter) ==
  address_after_letter(
    IF Len(letter) > 0 /\ Len(indicator) = 0
    THEN str_strip(re_sub(RxWord(letter), <<>>, address, TRUE)) ELSE address,
    IF Len(letter) > 0 /\ Len(indicator) = 0 THEN letter ELSE indicator)

\* parse_address_components, from the explicit residence indicators on: wi is the
\* index of the first dictionary word contained in the address, 0 when none
address_after_word(address, indicator) ==
  address_single_letter(address, indicator,
    re_group_found(str_lower(address), re_search(RxSingleLetter, str_lower(address), FALSE), 1))

address_indicator_word(address, wi) ==
  address_after_word(
    IF wi = 0 THEN address
    ELSE str_strip(re_sub(RxWord(component_residence_indicators[wi][1]), <<>>, address, TRUE)),
    IF wi = 0 THEN <<>> ELSE component_residence_indicators[wi][2])

\* parse_address_components, from address = address.strip() on
address_stripped(address) ==
  address_indicator_word(address, component_indicator_from(str_lower(address), 1))

parse_address_components(address0) ==
  IF Len(address0) = 0 THEN EmptyAddress ELSE address_stripped(str_strip(address0))

\* extract_address_info: residence_address_patterns (Pattern 1), address_patterns
\* (Pattern 2) and the residence_indicators dictionary, each in source order
residence_address_patterns == <<
    \* \b(boards|residence)\s+(\d{3,4}[^,]*(?:avenue|street|av|st|place|blvd)[^,]*)
    <<ReWb, ReGs(1), ReAlt(<<<<ReLit(<<"b","o","a","r","d","s">>)>>,
      <<ReLit(<<"r","e","s","i","d","e","n","c","e">>)>>>>), ReGe(1), ReRep(1, ReInf,
      <<ReSet(SpaceCh)>>), ReGs(2), ReRep(3, 4, <<ReSet(DigitCh)>>), ReRep(0, ReInf,
      <<ReNot({","})>>), ReAlt(<<<<ReLit(<<"a","v","e","n","u","e">>)>>,
      <<ReLit(<<"s","t","r","e","e","t">>)>>, <<ReLit(<<"a","v">>)>>, <<ReLit(<<"s","t">>)>>,
      <<ReLit(<<"p","l","a","c","e">>)>>, <<ReLit(<<"b","l","v","d">>)>>>>), ReRep(0, ReInf,
      <<ReNot({","})>>), ReGe(2)>>,
    \* \b(boards|residence)\s+([^,]*\d{3,4}[^,]*)
    <<ReWb, ReGs(1), ReAlt(<<<<ReLit(<<"b","o","a","r","d","s">>)>>,
      <<ReLit(<<"r","e","s","i","d","e","n","c","e">>)>>>>), ReGe(1), ReRep(1, ReInf,
      <<ReSet(SpaceCh)>>), ReGs(2), ReRep(0, ReInf, <<ReNot({","})>>), ReRep(3, 4,
      <<ReSet(DigitCh)>>), ReRep(0, ReInf, <<ReNot({","})>>), ReGe(2)>>,
    \* \b(rms|rooms)\s+(\d{3,4}[^,]*)
    <<ReWb, ReGs(1), ReAlt(<<<<ReLit(<<"r","m","s">>)>>, <<ReLit(<<"r","o","o","m","s">>)>>>>), ReGe(1),
      ReRep(1, ReInf, <<ReSet(SpaceCh)>>), ReGs(2), ReRep(3, 4, <<ReSet(DigitCh)>>), ReRep(0, ReInf,
      <<ReNot({","})>>), ReGe(2)>>
  >>

address_patterns == <<
    \* \b(\d{3,4}\s+[^,]*(?:avenue|av|street|st|place|blvd)[^,]*)
    <<ReWb, ReGs(1), ReRep(3, 4, <<ReSet(DigitCh)>>), ReRep(1, ReInf, <<ReSet(SpaceCh)>>), ReRep(0,
      ReInf, <<ReNot({","})>>), ReAlt(<<<<ReLit(<<"a","v","e","n","u","e">>)>>,
      <<ReLit(<<"a","v">>)>>, <<ReLit(<<"s","t","r","e","e","t">>)>>, <<ReLit(<<"s","t">>)>>,
      <<ReLit(<<"p","l","a","c","e">>)>>, <<ReLit(<<"b","l","v","d">>)>>>>), ReRep(0, ReInf,
      <<ReNot({","})>>), ReGe(1)>>,
    \* \b(\d{3,4}\s+[^,]*(?:north|south|east|west)[^,]*)
    <<ReWb, ReGs(1), ReRep(3, 4, <<ReSet(DigitCh)>>), ReRep(1, ReInf, <<ReSet(SpaceCh)>>), ReRep(0,
      ReInf, <<ReNot({","})>>), ReAlt(<<<<ReLit(<<"n","o","r","t","h">>)>>,
      <<ReLit(<<"s","o","u","t","h">>)>>, <<ReLit(<<"e","a","s","t">>)>>,
      <<ReLit(<<"w","e","s","t">>)>>>>), ReRep(0, ReInf, <<ReNot({","})>>), ReGe(1)>>,
    \* \b(\d{3,4}\s+[A-Za-z][^,]*)
    <<ReWb, ReGs(1), ReRep(3, 4, <<ReSet(DigitCh)>>), ReRep(1, ReInf, <<ReSet(SpaceCh)>>),
      ReSet(AlphaCh), ReRep(0, ReInf, <<ReNot({","})>>), ReGe(1)>>
  >>

info_residence_indicators == <<
    <<<<"b","o","a","r","d","s">>, <<"b">>>>,
    <<<<"r","e","s","i","d","e","n","c","e">>, <<"r">>>>,
    <<<<"r","m","s">>, <<"r","m","s">>>>,
    <<<<"r","o","o","m","s">>, <<"r","m","s">>>>,
    <<<<"d","o","m">>, <<"d","o","m">>>>
  >>

NoteInheritedAddress == <<"I","n","h","e","r","i","t","e","d"," ","a","d","d","r","e","s","s"," ","f","r","o","m"," ","p","r","e","v","i","o","u","s"," ","e","n","t","r","y">>

\* index of the first dictionary word that occurs in the text, 0 when none
RECURSIVE info_indicator_from(_, _)
info_indicator_from(text, i) ==
  IF i > Len(info_residence_indicators) THEN 0
  ELSE IF str_in(info_residence_indicators[i][1], text) THEN i
  ELSE info_indicator_from(text, i + 1)

\* the residence indicator of the word that Pattern 1 captured
pattern1_indicator(word) ==
  IF str_in(<<"r","m","s">>, word) THEN <<"r","m","s">>
  ELSE IF str_in(<<"b","o","a","r","d">>, word) THEN <<"b">>
  ELSE <<"r">>

\* extract_address_info, the fallback: address is what find_address_patterns found
address_inherited(entry, current_address, address) ==
  IF Len(address) > 0
  THEN [entry EXCEPT !.HomeAddress = parse_address_components(address)]
  ELSE IF Len(current_address) > 0
  THEN AddNote([entry EXCEPT !.HomeAddress = parse_address_components(current_address)],
               NoteInheritedAddress)
  ELSE entry

\* extract_address_info, from "if not entry["HomeAddress"]["StreetName"]" on
address_fallback(entry, current_address) ==
  IF Len(entry.HomeAddress.StreetName) > 0 THEN entry
  ELSE address_inherited(entry, current_address,
                         find_address_patterns(str_lower(entry["_raw_text"])))

\* extract_address_info, from the loop over residence_indicators on: wi is the index
\* of the first dictionary word that occurs in the text, 0 when none
address_explicit_indicator(entry, current_address, wi) ==
  address_fallback(
    IF wi # 0 /\ Len(entry.HomeAddress.ResidenceIndicator) = 0
    THEN [entry EXCEPT !.HomeAddress.ResidenceIndicator = info_residence_indicators[wi][2]]
    ELSE entry,
    current_address)

\* extract_address_info, Pattern 2 (standalone addresses with numbers): m2 is the
\* match of the first of address_patterns found in the line
address_by_pattern2(entry, current_address, m2) ==
  address_explicit_indicator(
    IF m2.ok
    THEN [entry EXCEPT !.HomeAddress =
            parse_address_components(str_strip(re_group(entry["_raw_text"], m2, 1)))]
    ELSE entry,
    current_address,
    info_indicator_from(str_lower(entry["_raw_text"]), 1))

\* extract_address_info, Pattern 1 (residence/boards + address): m1 is the match of
\* the first of residence_address_patterns found in the line
address_by_pattern1(entry, current_address, m1) ==
  IF m1.ok
  THEN [entry EXCEPT !.HomeAddress =
          [parse_address_components(str_strip(re_group(entry["_raw_text"], m1, 2)))
             EXCEPT !.ResidenceIndicator =
               pattern1_indicator(str_lower(re_group(entry["_raw_text"], m1, 1)))]]
  ELSE address_by_pattern2(entry, current_address,
         re_search_first(address_patterns, entry["_raw_text"], TRUE,
                         1, Len(address_patterns)))

\* extract_address_info, found being the pair <<indicator, address>> that
\* extract_residence_indicators returned
address_by_indicator(entry, current_address, found) ==
  IF Len(found[1]) > 0 /\ Len(found[2]) > 0
  THEN [entry EXCEPT !.HomeAddress =
          [parse_address_components(found[2]) EXCEPT !.ResidenceIndicator = found[1]]]
  ELSE address_by_pattern1(entry, current_address,
         re_search_first(residence_address_patterns, entry["_raw_text"], TRUE,
                         1, Len(residence_address_patterns)))

extract_address_info(entry, current_address) ==
  After(entry,
        address_by_indicator(entry, current_address,
                             extract_residence_indicators(str_lower(entry["_raw_text"]))))

(***************************************************************************)
(* Entry Assembler: src/parsing/json_parser.py                             *)
(***************************************************************************)
DirectoryPrefix == <<"M","i","n","n","e","a","p","o","l","i","s"," ">>

\* extract_telephone: r'tel[:\s]+([^,\s]+)', searched in text.lower()
RxTelephone ==
  <<ReLit(<<"t","e","l">>), ReRep(1, ReInf, <<ReSet({":"} \cup SpaceCh)>>), ReGs(1),
    ReRep(1, ReInf, <<ReNot({","} \cup SpaceCh)>>), ReGe(1)>>

\* extract_telephone, tel_match being the match of the pattern in the text
telephone_of_match(entry, text_lower, tel_match) ==
  IF tel_match.ok THEN [entry EXCEPT !.Telephone = re_group(text_lower, tel_match, 1)]
  ELSE entry

\* extract_telephone; no method of the parser calls it
extract_telephone(entry, text) ==
  telephone_of_match(entry, str_lower(text), re_search(RxTelephone, str_lower(text), FALSE))

\* _create_entry_template: a copy of the template with the directory name of the
\* edition and the three internal fields
create_entry_template(year, line_num, line) ==
  ("_line_number" :> line_num) @@ ("_raw_text" :> line) @@ ("_parsing_notes" :> <<>>)
    @@ [JSON_OUTPUT_FORMAT EXCEPT !.DirectoryName = DirectoryPrefix \o year]

\* _is_resident_line: ad_patterns
ad_patterns == <<
    <<"f","u","r","n","i","s","h","e","d"," ","p","r","o","m","p","t","l","y">>,
    <<"d","e","l","i","v","e","r","e","d"," ","f","o","r">>,
    <<"t","e","l","e","p","h","o","n","e">>, <<"c","e","n","t","s">>,
    <<"p","r","o","m","p","t","l","y">>,
    <<"t","r","u","n","k","s"," ","d","e","l","i","v","e","r","e","d">>,
    <<"m","e","s","s","e","n","g","e","r","s"," ","f","u","r","n","i","s","h","e","d">>
  >>

\* _is_resident_line: residence_indicators
resident_residence_indicators == <<<<"r">>, <<"b","o","a","r","d","s">>, <<"r","m","s">>, <<"s","t","u","d","e","n","t">>, <<"w","i","d">>>>

\* _is_resident_line: occupation_keywords
resident_occupation_keywords == <<
    <<"p","o","r","t","e","r">>, <<"c","l","e","r","k">>, <<"l","a","b","o","r","e","r">>,
    <<"t","e","a","m","s","t","e","r">>, <<"m","a","c","h","i","n","i","s","t">>,
    <<"e","n","g","i","n","e","e","r">>, <<"s","a","l","e","s","m","a","n">>,
    <<"b","o","o","k","k","e","e","p","e","r">>, <<"c","a","r","p","e","n","t","e","r">>,
    <<"c","o","n","d","u","c","t","o","r">>, <<"w","a","i","t","e","r">>,
    <<"s","t","u","d","e","n","t">>, <<"s","e","a","m","s","t","r","e","s","s">>,
    <<"n","u","r","s","e">>, <<"c","o","o","k">>,
    <<"m","i","l","l","w","r","i","g","h","t">>, <<"c","u","t","t","e","r">>
  >>

\* any(w in s for w in words)
any_in(words, s) == \E i \in 1..Len(words) : str_in(words[i], s)

\* r'\b\d{3,4}\b.*\b(avenue|street|av|st|place|blvd)\b'
RxResidentAddress ==
  <<ReWb, ReRep(3, 4, <<ReSet(DigitCh)>>), ReWb, ReRep(0, ReInf, <<ReNot({"\n"})>>), ReWb, ReGs(1),
    ReAlt(<<<<ReLit(<<"a","v","e","n","u","e">>)>>, <<ReLit(<<"s","t","r","e","e","t">>)>>,
    <<ReLit(<<"a","v">>)>>, <<ReLit(<<"s","t">>)>>, <<ReLit(<<"p","l","a","c","e">>)>>,
    <<ReLit(<<"b","l","v","d">>)>>>>), ReGe(1), ReWb>>

AdMarker == <<"A","Q","!">>
SeeAlso == <<"s","e","e"," ","a","l","s","o">>

\* _is_resident_line: FALSE for an advertisement, TRUE for a "see also" line,
\* otherwise name structure and one of residence indicator, occupation, address
has_residence_indicator(line_lower) == any_in(resident_residence_indicators, line_lower)

has_occupation(line_lower) == any_in(resident_occupation_keywords, line_lower)

has_name_structure(line) ==
  \/ (str_in(<<",">>, line) /\ ~StartsAt(line, AdMarker, 1))
  \/ StartsAt(line, <<"'">>, 1)
  \/ \E i \in 1..Len(line) : i <= 10 /\ line[i] \in UpperCh

has_address(line_lower) == re_search(RxResidentAddress, line_lower, FALSE).ok

\* _is_resident_line with the "see also" test moved before the advertisement loop
resident_see_also_first(line, line_lower) ==
  IF str_in(SeeAlso, line_lower) THEN TRUE
  ELSE IF any_in(ad_patterns, line_lower) THEN FALSE
  ELSE /\ has_name_structure(line)
       /\ \/ has_residence_indicator(line_lower)
          \/ has_occupation(line_lower)
          \/ has_address(line_lower)

\* _is_resident_line without the test of lines 173-174 for "see also"
resident_without_see_also(line, line_lower) ==
  IF any_in(ad_patterns, line_lower) THEN FALSE
  ELSE /\ has_name_structure(line)
       /\ \/ has_residence_indicator(line_lower)
          \/ has_occupation(line_lower)
          \/ has_address(line_lower)

\* _is_resident_line, from line_lower = line.lower() on
resident_in_lower(line, line_lower) ==
  IF any_in(ad_patterns, line_lower) THEN FALSE
  ELSE IF str_in(SeeAlso, line_lower) THEN TRUE
  ELSE /\ has_name_structure(line)
       /\ \/ has_residence_indicator(line_lower)
          \/ has_occupation(line_lower)
          \/ has_address(line_lower)

is_resident_line(line) == resident_in_lower(line, str_lower(line))

NoteSurnameFailed == <<"C","o","u","l","d"," ","n","o","t"," ","p","a","r","s","e"," ","s","u","r","n","a","m","e"," ","p","r","o","p","e","r","l","y">>
NoteInheritedSurname == <<"I","n","h","e","r","i","t","e","d"," ","s","u","r","n","a","m","e"," ","f","r","o","m"," ","p","r","e","v","i","o","u","s"," ","e","n","t","r","y">>

\* _parse_surname_line: the pair <<entry, current_surname>> after the call
surname_of_parts(entry, parts, current_surname) ==
  IF Len(parts) >= 2
  THEN <<parse_name_and_details([entry EXCEPT !.LastName = str_rstrip(parts[1], {","})],
                                str_join(<<" ">>, Tail(parts))),
         str_rstrip(parts[1], {","})>>
  ELSE <<AddNote(entry, NoteSurnameFailed), current_surname>>

parse_surname_line(entry, line, current_surname) ==
  surname_of_parts(entry, str_split(line, <<" ">>, 2, 1), current_surname)

\* _parse_continuation_line
parse_continuation_line(entry, line, current_surname) ==
  parse_name_and_details(
    AddNote([entry EXCEPT !.LastName = current_surname], NoteInheritedSurname), line)

\* the shortest line parse_line looks at
MinParseLength == 3

\* parse_line, from extract_address_info on: parsed is the pair <<entry,
\* current_surname>> that the surname or the continuation branch left
parsed_line(parsed, current_address) ==
  [entry |-> <<extract_address_info(parsed[1], current_address)>>,
   current_surname |-> parsed[2], current_address |-> current_address]

\* parse_line: entry is <<>> for None and <<e>> for the dictionary e returned;
\* current_surname and current_address are the attributes after the call (no
\* statement of parse_line or of what it calls assigns self.current_address)
parse_line(year, current_surname, current_address, line, line_num) ==
  IF Len(line) < MinParseLength \/ ~is_resident_line(line)
  THEN [entry |-> <<>>, current_surname |-> current_surname,
        current_address |-> current_address]
  ELSE
    parsed_line(
      IF starts_with_surname(line)
      THEN parse_surname_line(create_entry_template(year, line_num, line), line,
                              current_surname)
      ELSE <<parse_continuation_line(create_entry_template(year, line_num, line), line,
                                     current_surname),
             current_surname>>,
      current_address)

(***************************************************************************)
(* Line Normalizer: src/ocr/text_cleaner.py                                *)
(* The configuration is the dictionary given to TextCleaner, with every    *)
(* key that clean_text reads present.                                      *)
(***************************************************************************)
\* the values config.get falls back to
DefaultConfig ==
  [min_line_length |-> 3, remove_noise_characters |-> TRUE,
   merge_continuation_lines |-> TRUE, expand_abbreviations |-> TRUE]

\* _remove_noise_characters: the default of 'noise_characters'
noise_characters == {"~", "_"}

\* _remove_noise_characters: every occurrence of every noise character goes
remove_noise_characters(line) == SelectSeq(line, LAMBDA c : c \notin noise_characters)

\* _clean_front_of_line: the default of 'allowed_leading_chars'
allowed_leading == AlnumCh \cup {"&"}

\* _clean_front_of_line: the members of quote_artifacts that are in AllCh
quote_artifacts == {"*", "'"}

\* _clean_front_of_line
clean_front_of_line(line) ==
  LET has_leading_quote ==
        \/ (Len(line) > 0 /\ line[1] \in quote_artifacts)
        \/ (Len(line) > 1 /\ line[2] \in quote_artifacts)
      allowed == {i \in 1..Len(line) : line[i] \in allowed_leading}
      kept == IF allowed = {} THEN <<>>
              ELSE Slice(line, CHOOSE i \in allowed : \A j \in allowed : i <= j, Len(line))
  IN  IF has_leading_quote /\ kept # <<>> THEN <<"'">> \o kept ELSE kept

\* _clean_end_of_line: the default of 'allowed_ending_chars'
allowed_ending == AlnumCh \cup {"&", ")"}

\* _clean_end_of_line
RECURSIVE clean_end_of_line(_)
clean_end_of_line(line) ==
  IF line = <<>> THEN line
  ELSE LET last_char == line[Len(line)]
       IN  IF last_char \in AlnumCh \cup {"&"} THEN line
           ELSE IF last_char \in {".", ","} /\ Len(line) > 1
                   /\ line[Len(line) - 1] \in allowed_ending THEN line
           ELSE clean_end_of_line(Slice(line, 1, Len(line) - 1))

\* _merge_continuation_lines: continuation_ends
continuation_ends == {<<"a","n","d">>, <<"t","h","e">>, <<"o","f">>, <<"i","n">>, <<"f","o","r">>, <<"t","o">>,
    <<"o","n">>, <<"a","t">>, <<"w","i","t","h">>, <<"b","y">>, <<"a","s">>, <<"i","s">>,
    <<"a","r","e">>, <<",">>}

\* _is_continuation_line: the default of 'common_continuation_words'
common_continuation_words == {<<"C","o">>, <<"s","a","m","e">>, <<"C","o",",">>, <<"I","n","c">>, <<"L","t","d">>,
    <<"C","o","r","p">>}

\* the length below which _is_continuation_line calls a line very short
VeryShortLine == 16

\* _is_continuation_line, with the default 'continuation_indicators'
is_continuation_line(line) ==
  LET s == str_strip(line)
  IN  /\ s # <<>>
      /\ \/ s[1] \in DigitCh
         \/ s[1] \in LowerCh
         \/ Len(s) < VeryShortLine
         \/ str_split_ws(s, 1)[1] \in common_continuation_words

\* _merge_continuation_lines without the test for a line that starts with a quote
no_quote_starts == {}

\* the characters _merge_continuation_lines takes for an opening quote: of the code
\* points 8216, 8217, 8220, 8221, 39 and 34, the one that is in AllCh
quote_starts == {"'"}

\* a merging that would join every line to the one before it with a space
merge_all_with_space(lines) ==
  IF lines = <<>> THEN <<>> ELSE <<str_join(<<" ">>, lines)>>

\* _merge_continuation_lines: the loop from line i on, combined_lines so far
RECURSIVE merge_from(_, _, _)
merge_from(lines, i, combined_lines) ==
  IF i > Len(lines) THEN combined_lines
  ELSE
    LET line == lines[i]
        n == Len(combined_lines)
        previous == combined_lines[n]
        words == str_split_ws(str_strip(previous), 1)
        previous_line_last_word == words[Len(words)]
        joined == [combined_lines EXCEPT ![n] = previous \o <<" ">> \o str_strip(line)]
    IN  merge_from(lines, i + 1,
          IF n = 0 THEN Append(combined_lines, line)
          ELSE IF str_strip(line)[1] \in quote_starts THEN Append(combined_lines, line)
          ELSE IF previous[Len(previous)] = "-"
          THEN [combined_lines EXCEPT
                  ![n] = Slice(previous, 1, Len(previous) - 1) \o str_strip(line)]
          ELSE IF is_continuation_line(line) THEN joined
          ELSE IF str_lower(previous_line_last_word) \in continuation_ends THEN joined
          ELSE IF str_isdigit(previous_line_last_word) THEN joined
          ELSE Append(combined_lines, line))

merge_continuation_lines(lines) == merge_from(lines, 1, <<>>)

\* re.sub(r'\b' + re.escape(abbrev) + r'\b', full_form, line, flags=re.IGNORECASE)
expand_abbreviation(line, i) ==
  re_sub(RxWord(ABBREVIATIONS[i][1]), ABBREVIATIONS[i][2], line, TRUE)

\* the loop over ABBREVIATIONS.items() for the abbreviations lo..hi, in order; the
\* range is halved so that the evaluation stays shallow
RECURSIVE expand_line_range(_, _, _)
expand_line_range(line, lo, hi) ==
  IF lo = hi THEN expand_abbreviation(line, lo)
  ELSE LET mid == (lo + hi) \div 2
           expanded_line == expand_line_range(line, lo, mid)
       IN  IF expanded_line = line THEN expand_line_range(line, mid + 1, hi)
           ELSE expand_line_range(expanded_line, mid + 1, hi)

\* _expand_abbreviations
expand_abbreviations(lines) ==
  [k \in 1..Len(lines) |-> expand_line_range(lines[k], 1, Len(ABBREVIATIONS))]

\* the loop of clean_text without the test of the length of the physical line
RECURSIVE clean_lines_any_length(_, _, _)
clean_lines_any_length(lines, i, config) ==
  IF i > Len(lines) THEN <<>>
  ELSE
    LET line == lines[i]
        cleaned_line ==
          IF config.remove_noise_characters
          THEN clean_end_of_line(clean_front_of_line(remove_noise_characters(line)))
          ELSE line
        rest == clean_lines_any_length(lines, i + 1, config)
    IN  IF str_strip(cleaned_line) # <<>> THEN <<str_strip(cleaned_line)>> \o rest
        ELSE rest

\* the loop of clean_text over the physical lines from the i-th on
RECURSIVE clean_lines_from(_, _, _)
clean_lines_from(lines, i, config) ==
  IF i > Len(lines) THEN <<>>
  ELSE
    LET line == lines[i]
        cleaned_line ==
          IF config.remove_noise_characters
          THEN clean_end_of_line(clean_front_of_line(remove_noise_characters(line)))
          ELSE line
        rest == clean_lines_from(lines, i + 1, config)
    IN  IF str_strip(line) = <<>> \/ Len(str_strip(line)) < config.min_line_length
        THEN rest
        ELSE IF str_strip(cleaned_line) # <<>> THEN <<str_strip(cleaned_line)>> \o rest
        ELSE rest

\* clean_text: if self.config.get('merge_continuation_lines', True)
merged_if(config, cleaned_lines) ==
  IF config.merge_continuation_lines
  THEN merge_continuation_lines(cleaned_lines) ELSE cleaned_lines

\* clean_text: if self.config.get('expand_abbreviations', True)
expanded_if(config, cleaned_lines) ==
  IF config.expand_abbreviations THEN expand_abbreviations(cleaned_lines) ELSE cleaned_lines

\* clean_text
clean_text(text, config) ==
  IF text = <<>> THEN text
  ELSE
    str_join(<<"\n">>,
      expanded_if(config,
        merged_if(config, clean_lines_from(str_split(text, <<"\n">>, 0 - 1, 1), 1, config))))

\* _extract_page_number_from_filename: r'1900_0(\d+)'
RxPageNumber == <<ReLit(<<"1","9","0","0","_","0">>), ReGs(1), ReRep(1, ReInf, <<ReSet(DigitCh)>>), ReGe(1)>>

\* int(digits), written as the decimal numeral without leading zeros
int_numeral(digits) ==
  LET k == RunEnd(digits, {"0"}, 1)
  IN  IF k = Len(digits) THEN <<"0">> ELSE Slice(digits, k + 1, Len(digits))

\* _extract_page_number_from_filename: the page number as a numeral, or None
page_number_of_match(filename, match) ==
  IF match.ok THEN int_numeral(re_group(filename, match, 1)) ELSE None

extract_page_number_from_filename(filename) ==
  page_number_of_match(filename, re_search(RxPageNumber, filename, FALSE))

\* the truth value Python gives a page number: None and 0 are false
page_number_truthy(page_number) == page_number # None /\ page_number # <<"0">>

(***************************************************************************)
(* The inputs of the model                                                 *)
(***************************************************************************)
\* the year CityDirectoryParser() is constructed with
DefaultYear == <<"1","9","0","0">>

\* the lines the text files of the model are made of
LinePool == <<
    <<"A","a","d","l","a","n","d",","," ","P","e","t","e","r"," ","D"," ","S","a","l","e","s","m","a","n"," ","L","i","f","e","t","i","m","e"," ","S","l","s"," ","h"," ","2","1","0","3"," ","B","r","y","a","n","t"," ","a","v"," ","S"," ","a","p","t"," ","1">>,
    <<"S","m","i","t","h"," ","J","o","h","n",","," ","c","l","e","r","k"," ","r"," ","1","2"," ","M","a","i","n"," ","s","t">>,
    <<"S","m","i","t","h","\t","J","o","h","n","\t","c","l","e","r","k">>,
    <<"'","M","a","r","y"," ","w","i","d"," ","J","o","h","n"," ","S","m","i","t","h",","," ","c","l","e","r","k"," ","L","i","f","e","t","i","m","e"," ","C","o">>,
    <<"'","A","n","n"," ","w","i","d"," ","J","o","h","n"," ","d","e","c","e","a","s","e","d",","," ","b","o","a","r","d","s"," ","2","9","1","5"," ","C","l","i","n","t","o","n"," ","a","v">>,
    <<"J","o","n","e","s"," ","A","l",","," ","c","l","e","r","k"," ","s","e","e"," ","a","l","s","o"," ","T","r","u","n","k","s"," ","D","e","l","i","v","e","r","e","d"," ","P","r","o","m","p","t","l","y"," ","1","2","3"," ","M","a","i","n"," ","s","t">>,
    <<"'","W","m"," ","c","l","e","r","k">>,
    <<" ","A","b"," ">>,
    <<"P","a","r","r",","," ","A","n","n">>,
    <<"H","a","l","l",","," ","A","n","n"," ","B">>,
    <<"O","r","r"," ","s","e","e"," ","a","l","s","o"," ","O","h","r"," ","1","2","3","4"," ","M","a","i","n"," ","s","t">>,
    <<"s","e","e"," ","a","l","s","o"," ","o","h","m">>,
    <<"H","a","l","l"," ","A","n","n",","," ","c","l","e","r","k"," ","t","e","l"," ","1","2","3","4">>
  >>

\* the most lines a text file of the model has
MaxPageLines == 2

\* the names of the text files
FilePaths == {<<"c","o","l",".","t","x","t">>, <<"1","9","0","0","_","0","1","1","2",".","t","x","t">>}

\* the texts made of n lines of the pool, joined by newlines
RECURSIVE TextsOfLength(_, _)
TextsOfLength(pool, n) ==
  IF n = 1 THEN {pool[i] : i \in 1..Len(pool)}
  ELSE {t \o <<"\n">> \o pool[i] : t \in TextsOfLength(pool, n - 1), i \in 1..Len(pool)}

\* the lines of the pool that the text files of more than one line are made of
PageLineIndices == <<1, 2, 3, 4, 5, 7, 10>>
PageLinePool == [i \in DOMAIN PageLineIndices |-> LinePool[PageLineIndices[i]]]

\* the text files: every line of the pool by itself, and the files of more lines
Texts ==
  TextsOfLength(LinePool, 1) \cup
  UNION {TextsOfLength(PageLinePool, n) : n \in 2..MaxPageLines}

\* str(n) for a natural number n
Digits == <<"0","1","2","3","4","5","6","7","8","9">>
RECURSIVE int_str(_)
int_str(n) == IF n < 10 THEN <<Digits[n + 1]>> ELSE int_str(n \div 10) \o <<Digits[(n % 10) + 1]>>

\* process_single_page: f"data/output_json/page_{page_number}.json", of which
\* save_to_json keeps the name
page_file(page_number) == <<"p","a","g","e","_">> \o int_str(page_number) \o <<".","j","s","o","n">>

\* the page process_single_page is called for in the parser model
OutputFile == page_file(112)

\* the pages process_single_page is called for before the outputs are combined
PageNumbers == {1, 2, 10}

\* the OCR texts of those pages
PageTexts == {LinePool[2], LinePool[7], LinePool[2] \o <<"\n">> \o LinePool[7]}

\* the physical lines the OCR texts of the model are made of
RawLinePool == <<
    <<"A","n","d","e","r","-">>,
    <<"s","o","n",","," ","J","o","h","n"," ","c","l","e","r","k">>,
    <<"a","~","~">>,
    <<"O","r","r","_","~","~">>,
    <<"S","m","i","t","h"," ","J","o","h","n",","," ","c","l","k"," ","r"," ","1","2"," ","M","a","i","n"," ","s","t">>
  >>

\* the most physical lines an OCR text of the model has
MaxRawLines == 2

RawTexts == UNION {TextsOfLength(RawLinePool, n) : n \in 1..MaxRawLines}

\* the values of 'min_line_length' the cleaner is configured with
MinLineLengths == {3, 5}

\* the configurations of the cleaner: the defaults but for the minimum line length
Configs == {[DefaultConfig EXCEPT !.min_line_length = m] : m \in MinLineLengths}


\* format(n, "04d"): the numeral of n, padded with zeros on the left to four digits
RECURSIVE zero_padded(_, _)
zero_padded(numeral, width) ==
  IF Len(numeral) >= width THEN numeral ELSE zero_padded(<<"0">> \o numeral, width)

\* download_specific_pages: f"1900_{page_seq:04d}.jpg", the name the OCR text file
\* of the page keeps with the suffix .txt
scan_text_file(page_seq) == <<"1","9","0","0","_">> \o zero_padded(int_str(page_seq), 4) \o <<".","t","x","t">>

\* the page sequence numbers that are downloaded
PageSeqs == {7, 112, 1234}

\* the text files that are parsed: those of the downloaded pages, and one whose
\* name holds no page number
UnnumberedFile == <<"c","o","l",".","t","x","t">>
ScanPaths == {scan_text_file(page_seq) : page_seq \in PageSeqs} \cup {UnnumberedFile}

\* the items of a batch that are in the thread pool at the same time
MaxTasks == 2
Tasks == 1..MaxTasks

\* the physical lines the texts given to the Line Normalizer are made of
NormLinePool == <<
    <<"A","n","d","e","r","-">>,
    <<"'","W","m"," ","c","l","e","r","k">>,
    <<"s","o","n",","," ","J","o","h","n"," ","c","l","e","r","k">>,
    <<"1","2"," ","M","a","i","n"," ","s","t"," ","n","o","r","t","h">>,
    <<"C","o",","," ","M","i","n","n","e","a","p","o","l","i","s"," ","M","i","n","n","e","s","o","t","a">>,
    <<"J","o","n","e","s"," ","A","l","b","e","r","t",","," ","l","a","b","o","r","e","r">>,
    <<"S","m","i","t","h"," ","J","o","h","n",","," ","c","l","e","r","k"," ","a","n","d">>,
    <<"B","r","o","w","n"," ","W","m",","," ","c","l","e","r","k"," ","1","2","3","4">>,
    <<"H","a","l","l"," ","A","n","n"," ","B",","," ","e"," ","s">>
  >>

\* the most physical lines such a text has
MaxNormLines == 2

\* texts that are empty or made of lines that are short or hold no letter or digit
NoiseTexts == {
  <<>>,
  <<"~","~","~">>,
  <<"a","b">>,
  <<"."," ","!">>,
  <<"~","_","~","\n",".",".","!","!">>,
  <<"a","b","\n","~","~">>,
  <<"_","_"," ","~","\n","J","o","n","e","s"," ","A","l","b","e","r","t",","," ","l","a","b","o","r","e","r">> }

NormTexts == UNION {TextsOfLength(NormLinePool, n) : n \in 1..MaxNormLines} \cup NoiseTexts

\* the configurations of the cleaner in which continuation lines are merged: noise
\* removal and abbreviation expansion are each switched on or off
NormConfigs ==
  {[DefaultConfig EXCEPT !.remove_noise_characters = noise, !.expand_abbreviations = expand] :
     noise \in BOOLEAN, expand \in BOOLEAN}

\* the texts the methods of EntryExtractor are called with
ExtractorTexts == {
  <<"c","l","e","r","k"," ","L","i","f","e","t","i","m","e"," ","C","o">>,
  <<"w","i","t","h"," ","S","m","i","t","h"," ","C","o",","," ","c","l","e","r","k">>,
  <<"l","a","b"," ","r"," ","1","2"," ","M","a","i","n"," ","s","t">>,
  <<"w","i","d"," ","J","o","h","n",","," ","c","l","e","r","k">>,
  <<"b","o","a","r","d","s"," ","2","9","1","5"," ","C","l","i","n","t","o","n"," ","a","v">>,
  <<"e","n","g"," ","N"," ","P"," ","R","y",","," ","m","a","c","h">>,
  <<"r"," ","2","1","0","3"," ","B","r","y","a","n","t"," ","a","v"," ","S">>,
  <<"M","a","r","y"," ","A">> }

\* the calls of methods of EntryExtractor on one entry
MaxCalls == 3

\* BATCH_PROCESSING: 'batch_size' and 'checkpoint_interval'
batch_size == 5
checkpoint_interval == 10

\* the page lists process_items is called with under one job name
ItemLists == {
  <<104>>,
  <<104, 105>>,
  <<110, 111>>,
  <<101, 102, 103, 104, 105, 106, 107, 108, 109, 110, 111>> }

\* the sets of pages whose processing raises
FailingItems == {{}, {105}}

\* the calls of process_items under the job name
MaxJobCalls == 2

\* the pages process_single_page is called for
Pages == {112, 113}

\* process_column_images: image_file.stem + ".txt" for a column image, whose stem
\* is that of the downloaded page, f"1900_{page_seq:04d}", and the side
ocr_text_file(image_file) ==
  <<"1","9","0","0","_">> \o zero_padded(int_str(image_file.page), 4) \o
    (IF image_file.side = "left" THEN <<"_","l","e","f","t","_","c","o","l",".","t","x","t">> ELSE <<"_","r","i","g","h","t","_","c","o","l",".","t","x","t">>)

\* the text OCR and cleaning give for each column image
OcrText(image_file) ==
  IF image_file.page = 112
  THEN (IF image_file.side = "left" THEN LinePool[2] ELSE LinePool[7])
  ELSE (IF image_file.side = "left" THEN LinePool[9] ELSE LinePool[10])

\* the calls of process_single_page
MaxPageCalls == 3
(***************************************************************************)
(* State                                                                   *)
(***************************************************************************)
VARIABLES
  self_year,             \* CityDirectoryParser.year
  self_current_surname,  \* CityDirectoryParser.current_surname
  self_current_address,  \* CityDirectoryParser.current_address
  self_entries,          \* CityDirectoryParser.entries
  file_path,             \* parse_text_file: file_path, None before the first call
  file_text,             \* parse_text_file: text, the content of that file
  file_lines,            \* parse_text_file: lines
  loop_line_num,         \* parse_text_file: line_num, the line the loop is at
  file_page_number,      \* parse_text_file: page_number
  pc,                    \* "idle", "cleaned", "recleaned", "parsing", "returned"
                         \* or "saved"
  stale_surname,         \* current_surname as the call in progress found it,
                         \* None when the parser was new
  cleaner_config,        \* TextCleaner.config
  raw_text,              \* the text given to clean_text, None before the call
  cleaned_text,          \* the text clean_text returned
  recleaned_text,        \* the text clean_text returned for cleaned_text
  output_dir,            \* data/output_json: the content of each page file in it
  final_output,          \* the content of final_json_output.json, None before it
                         \* is written
  batch_tasks,           \* _process_batch: for each submitted item, the locals of
                         \* its call of process_single_page
  batch_parsers,         \* the CityDirectoryParser objects of the batch, by identity
  extractor_entry,       \* the entry the methods of EntryExtractor are called with
  extractor_text,        \* the text they are called with, None before an entry
                         \* is made
  extractor_before,      \* the entry as it was before the last call
  extractor_remaining,   \* what the last call of _extract_occupation_and_get_remaining
                         \* returned, None when the last call was another
  extractor_calls,       \* the methods called on the entry so far, in order
  checkpoint_file,       \* checkpoints/<job_name>.json: <<>> when there is no such file,
                         \* <<data>> when it holds the checkpoint data
  job_items,             \* process_items: items
  job_fails,             \* the items for which process_func raises
  job_i,                 \* process_items: i, the index the loop is at
  job_processed_items,   \* process_items: processed_items
  job_returned,          \* what process_items returned: <<>> before it returns, then
                         \* <<processed_items>>
  job_pc,                \* "idle", "looping" or "returned"
  job_calls,             \* the number of calls of process_items so far
  processed_images,      \* data/processed_images: the column images in it
  page_number_arg,       \* process_single_page: page_number, 0 when no call is in progress
  page_ocr_text,         \* results['output_files']['ocr_text']: <<>> before step 3, then
                         \* <<image>> for the column image whose text file it names
  page_step,             \* the step process_single_page is at: "idle", "columns" or "ocr"
  page_calls             \* the number of calls of process_single_page so far

vars == <<self_year, self_current_surname, self_current_address, self_entries,
          file_path, file_text, file_lines, loop_line_num, file_page_number, pc,
          stale_surname, cleaner_config, raw_text, cleaned_text, recleaned_text,
          output_dir, final_output, batch_tasks, batch_parsers,
          extractor_entry, extractor_text, extractor_before, extractor_remaining,
          extractor_calls,
          checkpoint_file, job_items, job_fails, job_i, job_processed_items, job_returned, job_pc, job_calls,
          processed_images, page_number_arg, page_ocr_text, page_step, page_calls>>

parser_vars == <<self_year, self_current_surname, self_current_address, self_entries>>
call_vars == <<file_path, file_text, file_lines, loop_line_num, file_page_number>>
cleaner_vars == <<cleaner_config, raw_text, cleaned_text, recleaned_text>>
output_vars == <<output_dir, final_output>>
batch_vars == <<batch_tasks, batch_parsers>>
job_vars == <<checkpoint_file, job_items, job_fails, job_i, job_processed_items, job_returned, job_pc, job_calls>>
page_vars == <<processed_images, page_number_arg, page_ocr_text, page_step, page_calls>>
extractor_vars ==
  <<extractor_entry, extractor_text, extractor_before, extractor_remaining,
    extractor_calls>>

\* processed_items = {}
NoItems == [item_id \in {} |-> None]

\* a directory that holds no file
NoFiles == [name \in {} |-> <<>>]

\* the locals of a call of process_single_page that has not started
IdleTask ==
  [pc |-> "idle", path |-> None, text |-> None, lines |-> <<>>, line_num |-> 0,
   page_number |-> None, entries |-> <<>>, overlapped |-> FALSE]

\* CityDirectoryParser.__init__: the fields of a new parser
NewParser(year) ==
  [year |-> year, current_surname |-> <<>>, current_address |-> <<>>, entries |-> <<>>]

\* CityDirectoryParser.__init__ and TextCleaner.__init__ with an empty configuration
Init ==
  /\ self_year = DefaultYear
  /\ self_current_surname = <<>>
  /\ self_current_address = <<>>
  /\ self_entries = <<>>
  /\ file_path = None
  /\ file_text = None
  /\ file_lines = <<>>
  /\ loop_line_num = 0
  /\ file_page_number = None
  /\ pc = "idle"
  /\ stale_surname = None
  /\ cleaner_config = DefaultConfig
  /\ raw_text = None
  /\ cleaned_text = None
  /\ recleaned_text = None
  /\ output_dir = NoFiles
  /\ final_output = None
  /\ batch_tasks = [task \in Tasks |-> IdleTask]
  /\ batch_parsers = [task \in Tasks |-> NewParser(DefaultYear)]
  /\ extractor_entry = create_entry_template(DefaultYear, 0, <<>>)
  /\ extractor_text = None
  /\ extractor_before = create_entry_template(DefaultYear, 0, <<>>)
  /\ extractor_remaining = None
  /\ extractor_calls = <<>>
  /\ checkpoint_file = <<>>
  /\ job_items = <<>>
  /\ job_fails = {}
  /\ job_i = 0
  /\ job_processed_items = NoItems
  /\ job_returned = <<>>
  /\ job_pc = "idle"
  /\ job_calls = 0
  /\ processed_images = {}
  /\ page_number_arg = 0
  /\ page_ocr_text = <<>>
  /\ page_step = "idle"
  /\ page_calls = 0

\* [line.strip() for line in text.split('\n') if line.strip()]
stripped_lines(lines) == [k \in DOMAIN lines |-> str_strip(lines[k])]
text_lines(text) ==
  SelectSeq(stripped_lines(str_split(text, <<"\n">>, 0 - 1, 1)), LAMBDA l : l # <<>>)

\* parse_text_file without the assignment self.current_surname = "" of line 48
ParseTextFileBeginKeepsSurname(path, text) ==
  /\ file_path' = path
  /\ file_text' = text
  /\ file_lines' = text_lines(text)
  /\ self_entries' = <<>>
  /\ self_current_address' = <<>>
  /\ file_page_number' = extract_page_number_from_filename(path)
  /\ loop_line_num' = 1
  /\ pc' = "parsing"
  /\ stale_surname' = IF pc = "returned" THEN self_current_surname ELSE None
  /\ UNCHANGED <<self_year, self_current_surname, cleaner_vars, output_vars,
                 batch_vars, extractor_vars, job_vars, page_vars>>

\* parse_text_file, from the call to the start of the loop: the file is read, the
\* state of the parser is reset, the page number is taken from the file name
ParseTextFileBegin(path, text) ==
  /\ file_path' = path
  /\ file_text' = text
  /\ file_lines' = text_lines(text)
  /\ self_entries' = <<>>
  /\ self_current_surname' = <<>>
  /\ self_current_address' = <<>>
  /\ file_page_number' = extract_page_number_from_filename(path)
  /\ loop_line_num' = 1
  /\ pc' = "parsing"
  /\ stale_surname' = IF pc = "returned" THEN self_current_surname ELSE None
  /\ UNCHANGED <<self_year, cleaner_vars, output_vars, batch_vars, extractor_vars,
                 job_vars, page_vars>>

\* parse_text_file is called on a text file of the pool, by a new parser or by one
\* that has returned from an earlier call
ParseTextFile ==
  /\ pc \in {"idle", "returned"}
  /\ \E path \in FilePaths, text \in Texts : ParseTextFileBegin(path, text)

\* the loop body with the entry put in front of the list
entries_prepended(entries, parsed, page_number) ==
  IF parsed.entry = <<>> THEN entries
  ELSE IF page_number_truthy(page_number)
  THEN <<[parsed.entry[1] EXCEPT !.PageNumber = page_number]>> \o entries
  ELSE <<parsed.entry[1]>> \o entries

\* the loop body of parse_text_file after parse_line has returned: if entry: ...
entries_with(entries, parsed, page_number) ==
  IF parsed.entry = <<>> THEN entries
  ELSE IF page_number_truthy(page_number)
  THEN Append(entries, [parsed.entry[1] EXCEPT !.PageNumber = page_number])
  ELSE Append(entries, parsed.entry[1])

\* parse_text_file as a function of the file, for a parser whose attributes are the
\* given ones when the loop reaches line k: the entries the call returns
RECURSIVE parse_lines_from(_, _, _, _, _, _, _)
parse_lines_after(year, found, text_rows, k, page_number, parsed) ==
  IF parsed.entry = <<>>
  THEN parse_lines_from(year, parsed.current_surname, parsed.current_address,
                        found, text_rows, k + 1, page_number)
  ELSE parse_lines_from(year, parsed.current_surname, parsed.current_address,
                        entries_with(found, parsed, page_number), text_rows, k + 1,
                        page_number)

parse_lines_from(year, cur_surname, cur_address, found, text_rows, k, page_number) ==
  IF k > Len(text_rows) THEN found
  ELSE parse_lines_after(year, found, text_rows, k, page_number,
                         parse_line(year, cur_surname, cur_address, text_rows[k], k))

\* parse_text_file called on a parser CityDirectoryParser(year) has just built
parse_text_file(year, path, text) ==
  parse_lines_from(year, <<>>, <<>>, <<>>, text_lines(text), 1,
                   extract_page_number_from_filename(path))

\* the state of the parser after one iteration, parsed being what parse_line returned
LineParsed(parsed) ==
  /\ self_current_surname' = parsed.current_surname
  /\ self_current_address' = parsed.current_address
  /\ self_entries' = entries_with(self_entries, parsed, file_page_number)

\* one iteration of the loop of parse_text_file
ParseTextFileLine ==
  /\ pc = "parsing"
  /\ loop_line_num <= Len(file_lines)
  /\ LineParsed(parse_line(self_year, self_current_surname, self_current_address,
                           file_lines[loop_line_num], loop_line_num))
  /\ loop_line_num' = loop_line_num + 1
  /\ UNCHANGED <<self_year, file_path, file_text, file_lines, file_page_number, pc,
                 stale_surname, cleaner_vars, output_vars, batch_vars, extractor_vars,
                 job_vars, page_vars>>

\* parse_text_file returns self.entries
ParseTextFileReturn ==
  /\ pc = "parsing"
  /\ loop_line_num > Len(file_lines)
  /\ pc' = "returned"
  /\ UNCHANGED <<parser_vars, call_vars, stale_surname, cleaner_vars, output_vars,
                 batch_vars, extractor_vars, job_vars, page_vars>>

\* the keys of an entry that start with an underscore
InternalKeys == {"_line_number", "_raw_text", "_parsing_notes"}

\* an entry copied with all its keys
clean_entry_keeps_all(entry) == entry

\* _clean_entry: the entry without the keys that start with an underscore
clean_entry(entry) == [key \in DOMAIN entry \ InternalKeys |-> entry[key]]

\* save_to_json without a page number: the cleaned entries are written to the file
cleaned_entries(entries) == [k \in DOMAIN entries |-> clean_entry(entries[k])]
written(dir, name, content) ==
  [f \in DOMAIN dir \cup {name} |-> IF f = name THEN content ELSE dir[f]]

\* process_single_page, step 4: if entries: parser.save_to_json(output_json)
SaveToJsonAs(output_file) ==
  /\ pc = "returned"
  /\ self_entries # <<>>
  /\ output_dir' = written(output_dir, output_file, cleaned_entries(self_entries))
  /\ pc' = "saved"
  /\ UNCHANGED <<parser_vars, call_vars, stale_surname, cleaner_vars, final_output,
                 batch_vars, extractor_vars, job_vars, page_vars>>

SaveToJson == SaveToJsonAs(OutputFile)

Next == ParseTextFile \/ ParseTextFileLine \/ ParseTextFileReturn \/ SaveToJson

Spec == Init /\ [][Next]_vars

\* TextExtractor.extract_text: the OCR text goes through clean_text of a cleaner
\* with the configured post-processing
CleanText ==
  /\ pc = "idle"
  /\ \E text \in RawTexts, config \in Configs :
       /\ raw_text' = text
       /\ cleaner_config' = config
       /\ cleaned_text' = clean_text(text, config)
  /\ pc' = "cleaned"
  /\ UNCHANGED <<parser_vars, call_vars, stale_surname, recleaned_text, output_vars,
                 batch_vars, extractor_vars, job_vars, page_vars>>

\* clean_text is called again, on the text it has returned
CleanTextAgain ==
  /\ pc = "cleaned"
  /\ recleaned_text' = clean_text(cleaned_text, cleaner_config)
  /\ pc' = "recleaned"
  /\ UNCHANGED <<parser_vars, call_vars, stale_surname, cleaner_config, raw_text,
                 cleaned_text, output_vars, batch_vars, extractor_vars, job_vars,
                 page_vars>>

\* process_column_images writes the cleaned text to a text file, and
\* parse_text_file is called on that file
ParseCleanedText ==
  /\ pc = "cleaned"
  /\ \E path \in FilePaths : ParseTextFileBegin(path, cleaned_text)

NextPipeline ==
  CleanText \/ CleanTextAgain \/ ParseCleanedText \/ ParseTextFileLine \/ ParseTextFileReturn

SpecPipeline == Init /\ [][NextPipeline]_vars

\* process_single_page for one more page: CityDirectoryParser() is built anew and
\* parses the OCR text of the page
ParsePage ==
  /\ pc \in {"idle", "saved"}
  /\ \E path \in FilePaths, text \in PageTexts : ParseTextFileBegin(path, text)

\* process_single_page, step 4, for the page number it was called with
SavePage == \E page_number \in PageNumbers : SaveToJsonAs(page_file(page_number))

\* the characters of file names in the order of their code points
CodePointOrder ==
  <<"\t", " ", "!", "&", "'", "(", ")", "*", ",", "-", ".">> \o
  <<"0","1","2","3","4","5","6","7","8","9">> \o <<":">> \o UpperSeq \o <<"_">> \o
  LowerSeq \o <<"~">>
chr_ord(c) == CHOOSE i \in DOMAIN CodePointOrder : CodePointOrder[i] = c

\* a < b for two strings, as list.sort() of strings compares them
RECURSIVE str_less(_, _, _)
str_less(a, b, i) ==
  IF i > Len(b) THEN FALSE
  ELSE IF i > Len(a) THEN TRUE
  ELSE IF a[i] # b[i] THEN chr_ord(a[i]) < chr_ord(b[i])
  ELSE str_less(a, b, i + 1)

\* json_files.sort(): the names in ascending order
str_min(names) == CHOOSE a \in names : \A b \in names \ {a} : str_less(a, b, 1)
RECURSIVE sorted_names(_)
sorted_names(names) ==
  IF names = {} THEN <<>>
  ELSE <<str_min(names)>> \o sorted_names(names \ {str_min(names)})

\* glob("page_*.json"): the names of the page files in the directory
PagePrefix == <<"p","a","g","e","_">>
JsonSuffix == <<".","j","s","o","n">>
is_page_file(name) ==
  /\ Len(name) >= Len(PagePrefix) + Len(JsonSuffix)
  /\ StartsAt(name, PagePrefix, 1)
  /\ StartsAt(name, JsonSuffix, Len(name) - Len(JsonSuffix) + 1)
page_files(dir) == {name \in DOMAIN dir : is_page_file(name)}

\* the loop of combine_json_outputs: all_entries.extend(entries) for each file
RECURSIVE all_entries_from(_, _, _)
all_entries_from(dir, json_files, i) ==
  IF i > Len(json_files) THEN <<>>
  ELSE dir[json_files[i]] \o all_entries_from(dir, json_files, i + 1)

\* combine_json_outputs: the page files are read in the sorted order of their names
\* and their entries are written, concatenated, to the final output file
CombineJsonOutputs ==
  /\ pc \in {"idle", "saved"}
  /\ final_output' = all_entries_from(output_dir, sorted_names(page_files(output_dir)), 1)
  /\ pc' = "combined"
  /\ UNCHANGED <<parser_vars, call_vars, stale_surname, cleaner_vars, output_dir,
                 batch_vars, extractor_vars, job_vars, page_vars>>

NextCombine ==
  ParsePage \/ ParseTextFileLine \/ ParseTextFileReturn \/ SavePage \/ CombineJsonOutputs

SpecCombine == Init /\ [][NextCombine]_vars

\* parse_text_file is called on the OCR text file of a downloaded page
ParseScanFile ==
  /\ pc \in {"idle", "returned"}
  /\ \E path \in ScanPaths, text \in PageTexts : ParseTextFileBegin(path, text)

NextPageNumber == ParseScanFile \/ ParseTextFileLine \/ ParseTextFileReturn

SpecPageNumber == Init /\ [][NextPageNumber]_vars

\* process_single_page where every call uses the one parser of the first task
parser_shared(task) == 1

\* process_single_page, parser = CityDirectoryParser(): each call builds an object
\* of its own; the object of a call is named by the task
parser_of(task) == task

\* another task is in the loop of parse_text_file
other_in_loop(task) ==
  \E other \in Tasks \ {task} :
    batch_tasks[other].pc = "parsing" /\ batch_tasks[other].line_num > 1

\* executor.submit(process_func, item): a worker thread calls process_single_page,
\* which builds its parser and calls parse_text_file, up to the start of the loop
TaskStartOn(task, path, text) ==
  /\ batch_tasks' = [batch_tasks EXCEPT ![task] =
       [pc |-> "parsing", path |-> path, text |-> text, lines |-> text_lines(text),
        line_num |-> 1, page_number |-> extract_page_number_from_filename(path),
        entries |-> <<>>, overlapped |-> FALSE]]
  /\ batch_parsers' = [batch_parsers EXCEPT ![parser_of(task)] = NewParser(DefaultYear)]

TaskStart(task) ==
  /\ batch_tasks[task].pc = "idle"
  /\ \E path \in FilePaths, text \in PageTexts : TaskStartOn(task, path, text)
  /\ UNCHANGED <<parser_vars, call_vars, pc, stale_surname, cleaner_vars, output_vars,
                 extractor_vars, job_vars, page_vars>>

\* the parser of the task after one iteration, parsed being what parse_line returned
TaskLineParsed(task, parsed) ==
  batch_parsers' = [batch_parsers EXCEPT ![parser_of(task)] =
    [year |-> @.year,
     current_surname |-> parsed.current_surname,
     current_address |-> parsed.current_address,
     entries |-> entries_with(@.entries, parsed, batch_tasks[task].page_number)]]

\* one iteration of the loop of parse_text_file in the thread of the task
TaskLine(task) ==
  /\ batch_tasks[task].pc = "parsing"
  /\ batch_tasks[task].line_num <= Len(batch_tasks[task].lines)
  /\ TaskLineParsed(task,
       parse_line(batch_parsers[parser_of(task)].year,
                  batch_parsers[parser_of(task)].current_surname,
                  batch_parsers[parser_of(task)].current_address,
                  batch_tasks[task].lines[batch_tasks[task].line_num],
                  batch_tasks[task].line_num))
  /\ batch_tasks' = [batch_tasks EXCEPT
       ![task].line_num = @ + 1,
       ![task].overlapped = @ \/ other_in_loop(task)]
  /\ UNCHANGED <<parser_vars, call_vars, pc, stale_surname, cleaner_vars, output_vars,
                 extractor_vars, job_vars, page_vars>>

\* parse_text_file returns self.entries to process_single_page in the thread of the
\* task
TaskReturn(task) ==
  /\ batch_tasks[task].pc = "parsing"
  /\ batch_tasks[task].line_num > Len(batch_tasks[task].lines)
  /\ batch_tasks' = [batch_tasks EXCEPT
       ![task].pc = "returned",
       ![task].entries = batch_parsers[parser_of(task)].entries]
  /\ UNCHANGED <<parser_vars, call_vars, pc, stale_surname, cleaner_vars, output_vars,
                 batch_parsers, extractor_vars, job_vars, page_vars>>

\* the threads of the pool run in any interleaving
NextBatch == \E task \in Tasks : TaskStart(task) \/ TaskLine(task) \/ TaskReturn(task)

SpecBatch == Init /\ [][NextBatch]_vars

\* TextCleaner(config).clean_text(text) for a text and a configuration of the
\* Line Normalizer
NormalizeText ==
  /\ pc = "idle"
  /\ \E text \in NormTexts, config \in NormConfigs :
       /\ raw_text' = text
       /\ cleaner_config' = config
       /\ cleaned_text' = clean_text(text, config)
  /\ pc' = "cleaned"
  /\ UNCHANGED <<parser_vars, call_vars, stale_surname, recleaned_text, output_vars,
                 batch_vars, extractor_vars, job_vars, page_vars>>

NextNormalizer == NormalizeText \/ CleanTextAgain

SpecNormalizer == Init /\ [][NextNormalizer]_vars

\* the variables the methods of EntryExtractor leave alone
not_extractor_vars ==
  <<parser_vars, call_vars, pc, stale_surname, cleaner_vars, output_vars, batch_vars,
    job_vars, page_vars>>

\* a method of EntryExtractor has been called fewer than MaxCalls times on the entry
MayCall == extractor_text # None /\ Len(extractor_calls) < MaxCalls

\* _create_entry_template for a line, as parse_line makes it
CreateEntry ==
  /\ extractor_text = None
  /\ \E text \in ExtractorTexts :
       /\ extractor_entry' = create_entry_template(DefaultYear, 1, text)
       /\ extractor_before' = create_entry_template(DefaultYear, 1, text)
       /\ extractor_text' = text
  /\ UNCHANGED <<not_extractor_vars, extractor_remaining, extractor_calls>>

\* the entry and the text after a call that left occ, the pair <<entry, remaining_text>>
OccupationExtracted(occ) ==
  /\ extractor_entry' = occ[1]
  /\ extractor_remaining' = occ[2]

\* _extract_occupation_and_get_remaining(entry, text)
ExtractOccupation ==
  /\ MayCall
  /\ OccupationExtracted(extract_occupation_and_get_remaining(extractor_entry, extractor_text))
  /\ extractor_before' = extractor_entry
  /\ extractor_calls' = Append(extractor_calls, "occupation")
  /\ UNCHANGED <<not_extractor_vars, extractor_text>>

\* parse_occupation_and_employer(entry, text)
ParseOccupationAndEmployer ==
  /\ MayCall
  /\ extractor_entry' = parse_occupation_and_employer(extractor_entry, extractor_text)
  /\ extractor_before' = extractor_entry
  /\ extractor_remaining' = None
  /\ extractor_calls' = Append(extractor_calls, "employer")
  /\ UNCHANGED <<not_extractor_vars, extractor_text>>

\* extract_address_info(entry, current_address) with no address carried over
ExtractAddressInfo ==
  /\ MayCall
  /\ extractor_entry' = extract_address_info(extractor_entry, <<>>)
  /\ extractor_before' = extractor_entry
  /\ extractor_remaining' = None
  /\ extractor_calls' = Append(extractor_calls, "address")
  /\ UNCHANGED <<not_extractor_vars, extractor_text>>

NextExtractor ==
  CreateEntry \/ ExtractOccupation \/ ParseOccupationAndEmployer \/ ExtractAddressInfo

SpecExtractor == Init /\ [][NextExtractor]_vars

\* the variables process_items leaves alone
not_job_vars ==
  <<parser_vars, call_vars, pc, stale_surname, cleaner_vars, output_vars, batch_vars,
    extractor_vars, page_vars>>

\* checkpoint.get('processed_items', {}) and checkpoint.get('last_index', 0) of the
\* checkpoint load_checkpoint returned, and their values when it returned none
LoadedItems == IF checkpoint_file = <<>> THEN NoItems ELSE checkpoint_file[1].processed_items
LoadedIndex == IF checkpoint_file = <<>> THEN 0 ELSE checkpoint_file[1].last_index

\* process_items(items, process_func, job_name) up to the start of the loop: the
\* checkpoint stored under the job name is loaded and the loop starts at its index
ProcessItems ==
  /\ job_pc \in {"idle", "returned"}
  /\ job_calls < MaxJobCalls
  /\ \E items \in ItemLists, fails \in FailingItems :
       /\ job_items' = items
       /\ job_fails' = fails
  /\ job_processed_items' = LoadedItems
  /\ job_i' = LoadedIndex
  /\ job_returned' = <<>>
  /\ job_pc' = "looping"
  /\ job_calls' = job_calls + 1
  /\ UNCHANGED <<not_job_vars, checkpoint_file>>

\* process_func(item) in a worker thread: the result of the page, None when it raised
process_result(item) == IF item \in job_fails THEN None ELSE <<"result", item>>

\* items[i:i + self.batch_size], i counted from 0
batch_of(items, i) == SubSeq(items, i + 1, IF i + batch_size < Len(items) THEN i + batch_size ELSE Len(items))

\* _process_batch: results[str(item)] for every item of the batch
batch_results(batch) ==
  [item_id \in {int_str(batch[k]) : k \in DOMAIN batch} |->
     process_result(CHOOSE item \in {batch[k] : k \in DOMAIN batch} : int_str(item) = item_id)]

\* processed_items[item_id] = result for the results of a batch
items_updated(processed_items, results) ==
  [item_id \in DOMAIN processed_items \cup DOMAIN results |->
     IF item_id \in DOMAIN results THEN results[item_id] ELSE processed_items[item_id]]

\* one iteration of the loop of process_items: a batch is processed, its results
\* are added, and the checkpoint is saved when the index is a multiple of the interval
ProcessBatch ==
  /\ job_pc = "looping"
  /\ job_i < Len(job_items)
  /\ job_processed_items' =
       items_updated(job_processed_items, batch_results(batch_of(job_items, job_i)))
  /\ checkpoint_file' =
       IF (job_i + batch_size) % checkpoint_interval = 0
       THEN <<[processed_items |-> job_processed_items', last_index |-> job_i + batch_size,
               total_items |-> Len(job_items), completed |-> FALSE]>>
       ELSE checkpoint_file
  /\ job_i' = job_i + batch_size
  /\ UNCHANGED <<not_job_vars, job_items, job_fails, job_returned, job_pc, job_calls>>

\* process_items after the loop: the final checkpoint is saved and processed_items
\* is returned
ProcessItemsReturn ==
  /\ job_pc = "looping"
  /\ job_i >= Len(job_items)
  /\ checkpoint_file' =
       <<[processed_items |-> job_processed_items, last_index |-> Len(job_items),
          total_items |-> Len(job_items), completed |-> TRUE]>>
  /\ job_returned' = <<job_processed_items>>
  /\ job_pc' = "returned"
  /\ UNCHANGED <<not_job_vars, job_items, job_fails, job_i, job_processed_items,
                 job_calls>>

\* the process is stopped while the loop runs; the checkpoint file stays as it is
ProcessStopped ==
  /\ job_pc = "looping"
  /\ job_pc' = "idle"
  /\ UNCHANGED <<not_job_vars, checkpoint_file, job_items, job_fails, job_i,
                 job_processed_items, job_returned, job_calls>>

NextJob == ProcessItems \/ ProcessBatch \/ ProcessItemsReturn \/ ProcessStopped

SpecJob == Init /\ [][NextJob]_vars

\* _save_column_images: the left and the right column image of a page
column_images_of(page_number) ==
  {[page |-> page_number, side |-> side] : side \in {"left", "right"}}

\* process_single_page(page_number), steps 1 and 2: the page is downloaded and its two
\* column images are written to data/processed_images, where those of the pages
\* processed before remain
ExtractColumns ==
  /\ page_step = "idle"
  /\ pc \in {"idle", "saved"}
  /\ page_calls < MaxPageCalls
  /\ \E page_number \in Pages :
       /\ page_number_arg' = page_number
       /\ processed_images' = processed_images \cup column_images_of(page_number)
  /\ page_ocr_text' = <<>>
  /\ page_step' = "columns"
  /\ page_calls' = page_calls + 1
  /\ UNCHANGED <<parser_vars, call_vars, pc, stale_surname, cleaner_vars, output_vars,
                 batch_vars, extractor_vars, job_vars>>

\* process_single_page, step 3: process_column_images makes a text file for every
\* image that glob("*_col.jpg") finds in data/processed_images, and
\* list(ocr_results.values())[0] is the text file of the image glob listed first;
\* glob lists the directory in no defined order
ProcessColumnImages ==
  /\ page_step = "columns"
  /\ \E image_file \in processed_images : page_ocr_text' = <<image_file>>
  /\ page_step' = "ocr"
  /\ UNCHANGED <<parser_vars, call_vars, pc, stale_surname, cleaner_vars, output_vars,
                 batch_vars, extractor_vars, job_vars, processed_images,
                 page_number_arg, page_calls>>

\* process_single_page, step 4: a new parser parses results['output_files']['ocr_text']
ParseOcrText ==
  /\ page_step = "ocr"
  /\ pc \in {"idle", "saved"}
  /\ ParseTextFileBegin(ocr_text_file(page_ocr_text[1]), OcrText(page_ocr_text[1]))

\* process_single_page, the end of step 4: if entries: parser.save_to_json of
\* data/output_json/page_{page_number}.json; the call returns
SavePageJson ==
  /\ page_step = "ocr"
  /\ pc = "returned"
  /\ output_dir' =
       IF self_entries # <<>>
       THEN written(output_dir, page_file(page_number_arg), cleaned_entries(self_entries))
       ELSE output_dir
  /\ pc' = "saved"
  /\ page_step' = "idle"
  /\ UNCHANGED <<parser_vars, call_vars, stale_surname, cleaner_vars, final_output,
                 batch_vars, extractor_vars, job_vars, processed_images,
                 page_number_arg, page_ocr_text, page_calls>>

NextSinglePage ==
  ExtractColumns \/ ProcessColumnImages \/ ParseOcrText \/ ParseTextFileLine
    \/ ParseTextFileReturn \/ SavePageJson

SpecSinglePage == Init /\ [][NextSinglePage]_vars

(***************************************************************************)
(* Properties                                                              *)
(***************************************************************************)
\* the raw text of the k-th record of the parse in progress
RawText(k) == self_entries[k]["_raw_text"]

\* the first space-delimited token of a line, a trailing comma removed
SurnameToken(line) == str_rstrip(str_split(line, <<" ">>, 0 - 1, 1)[1], {","})

\* the lines of the file the loop has dealt with, and those of them it rejected
Processed == 1..(loop_line_num - 1)
Accepted == {self_entries[k]["_line_number"] : k \in DOMAIN self_entries}
Rejected == Processed \ Accepted

\* C1: surname inheritance. If, of the lines accepted so far in one parse, only the
\* first starts a new record, every later record's LastName is the surname taken
\* from that first line: its first space-delimited token without a trailing comma.
C1_SurnameInheritance ==
  \A n \in 2..Len(self_entries) :
    (/\ starts_with_surname(RawText(1))
     /\ \A k \in 2..n : ~starts_with_surname(RawText(k)))
    => self_entries[n].LastName = SurnameToken(RawText(1))

\* C2: once a line that starts a new record has been accepted in a parse, the
\* record of that line and every later record have a non-empty LastName.
C2_LastNameNeverEmpty ==
  \A n \in DOMAIN self_entries :
    (\E k \in 1..n : starts_with_surname(RawText(k))) => self_entries[n].LastName # <<>>

\* C3: parser state does not leak between calls. What parse_text_file returns for a
\* file on a parser that has parsed another file before is exactly what a new parser
\* returns for that file.
C3_NoLeakBetweenParses ==
  pc = "returned" => self_entries = parse_text_file(self_year, file_path, file_text)

\* C3 witness: a call has returned on a parser whose earlier call left a surname
\* behind, and its first record is one that inherits the current surname.
C3_Witness ==
  /\ pc = "returned"
  /\ stale_surname # None /\ stale_surname # <<>>
  /\ self_entries # <<>>
  /\ ~starts_with_surname(RawText(1))
  /\ self_entries[1].LastName = <<>>

\* the end-to-end line of C4
AadlandLine == <<"A","a","d","l","a","n","d",","," ","P","e","t","e","r"," ","D"," ","S","a","l","e","s","m","a","n"," ","L","i","f","e","t","i","m","e"," ","S","l","s"," ","h"," ","2","1","0","3"," ","B","r","y","a","n","t"," ","a","v"," ","S"," ","a","p","t"," ","1">>

\* the records of the parse in progress made from line k of the file
RecordsOfLine(k) == {n \in DOMAIN self_entries : self_entries[n]["_line_number"] = k}

\* the fields C4 expects of a record
AadlandRecord(e) ==
  /\ e.DirectoryName = <<"M","i","n","n","e","a","p","o","l","i","s"," ","1","9","0","0">>
  /\ e.LastName = <<"A","a","d","l","a","n","d">>
  /\ e.FirstName = <<"P","e","t","e","r"," ","D">>
  /\ e.Occupation = <<"S","a","l","e","s","m","a","n">>
  /\ str_in(<<"L","i","f","e","t","i","m","e"," ","S","l","s">>, e.CompanyName)
  /\ e.HomeAddress.StreetNumber = <<"2","1","0","3">>
  /\ str_in(<<"B","r","y","a","n","t"," ","a","v"," ","S">>, e.HomeAddress.StreetName)
  /\ e.HomeAddress.ApartmentOrUnit = <<"a","p","t"," ","1">>
  /\ e.HomeAddress.ResidenceIndicator = <<"h">>

\* C4: end to end, the line "Aadland, Peter D Salesman Lifetime Sls h 2103 Bryant av S
\* apt 1" of the 1900 directory gives one record with LastName "Aadland", FirstName
\* "Peter D", Occupation "Salesman", CompanyName containing "Lifetime Sls",
\* StreetNumber "2103", StreetName containing "Bryant av S", ApartmentOrUnit "apt 1"
\* and ResidenceIndicator "h".
C4_AadlandEndToEnd ==
  \A k \in Processed :
    file_lines[k] = AadlandLine =>
      /\ Cardinality(RecordsOfLine(k)) = 1
      /\ \A n \in RecordsOfLine(k) : AadlandRecord(self_entries[n])

\* the text parse_line hands to parse_name_and_details for a line: the rest after
\* the surname for a line that starts a record, else the whole line
NameText(line) ==
  IF ~starts_with_surname(line) THEN line
  ELSE IF Len(str_split(line, <<" ">>, 2, 1)) >= 2
  THEN str_join(<<" ">>, Tail(str_split(line, <<" ">>, 2, 1)))
  ELSE <<>>

\* the detail text of a line: what is left of that text after the first name
DetailText(line) ==
  IF NameText(line) = <<>> THEN <<>> ELSE split_name_and_details(NameText(line))[2]

\* the widow marker of a detail text, if there is one, and the name that follows it
WidowMarker(text) == re_search_first(widow_patterns, text, TRUE, 1, Len(widow_patterns))
WidowName(text) == str_strip(re_group(text, WidowMarker(text), 1))
HasWidowName(text) == WidowMarker(text).ok /\ WidowName(text) # <<>>

\* C7 as stated: a record whose detail text holds a widow marker followed by a name
\* has Occupation "widow", Spouse that name with " (deceased)" appended, and an
\* empty CompanyName.
C7_WidowAlwaysDeceased ==
  \A n \in DOMAIN self_entries :
    HasWidowName(DetailText(RawText(n))) =>
      /\ self_entries[n].Occupation = <<"w","i","d","o","w">>
      /\ self_entries[n].Spouse = WidowName(DetailText(RawText(n))) \o <<" ","(","d","e","c","e","a","s","e","d",")">>
      /\ self_entries[n].CompanyName = <<>>

\* C7, amended: a record whose detail text holds a widow marker followed by a name
\* has Occupation "widow" and an empty CompanyName; its Spouse is that name, with
\* " (deceased)" appended unless the name already holds "deceased" in any case. For
\* the detail text "wid John Smith" Spouse is "John Smith (deceased)".
C7_WidowPrecedence ==
  \A n \in DOMAIN self_entries :
    HasWidowName(DetailText(RawText(n))) =>
      /\ self_entries[n].Occupation = <<"w","i","d","o","w">>
      /\ self_entries[n].CompanyName = <<>>
      /\ self_entries[n].Spouse =
           IF str_in(<<"d","e","c","e","a","s","e","d">>, str_lower(WidowName(DetailText(RawText(n)))))
           THEN WidowName(DetailText(RawText(n)))
           ELSE WidowName(DetailText(RawText(n))) \o <<" ","(","d","e","c","e","a","s","e","d",")">>
      /\ WidowName(DetailText(RawText(n))) = <<"J","o","h","n"," ","S","m","i","t","h">>
           => self_entries[n].Spouse = <<"J","o","h","n"," ","S","m","i","t","h"," ","(","d","e","c","e","a","s","e","d",")">>

\* C7 witness: two records of one page, one whose detail text is "wid John Smith"
\* followed by an occupation and an employer, one whose widow name holds "deceased"
C7_Witness ==
  /\ \E n \in DOMAIN self_entries :
       /\ DetailText(RawText(n)) = <<"w","i","d"," ","J","o","h","n"," ","S","m","i","t","h",","," ","c","l","e","r","k"," ","L","i","f","e","t","i","m","e"," ","C","o">>
       /\ self_entries[n].Spouse = <<"J","o","h","n"," ","S","m","i","t","h"," ","(","d","e","c","e","a","s","e","d",")">>
  /\ \E n \in DOMAIN self_entries :
       /\ WidowName(DetailText(RawText(n))) = <<"J","o","h","n"," ","d","e","c","e","a","s","e","d">>
       /\ self_entries[n].Spouse = <<"J","o","h","n"," ","d","e","c","e","a","s","e","d">>

\* the address a line gives a record by itself, with nothing to inherit
AddressOfLine(line) ==
  extract_address_info(create_entry_template(DefaultYear, 0, line), <<>>).HomeAddress

\* the notes of a record, as a set
NotesOf(e) == {e["_parsing_notes"][i] : i \in DOMAIN e["_parsing_notes"]}

\* C8: address fallback. A record of a line that holds no address pattern, emitted
\* after a record of the same page that has an address, has that address as its
\* StreetName and the note "Inherited address from previous entry".
C8_AddressFallback ==
  \A n \in DOMAIN self_entries :
    (/\ n > 1
     /\ self_entries[n - 1].HomeAddress.StreetName # <<>>
     /\ AddressOfLine(RawText(n)).StreetName = <<>>)
    => /\ self_entries[n].HomeAddress.StreetName = self_entries[n - 1].HomeAddress.StreetName
       /\ NoteInheritedAddress \in NotesOf(self_entries[n])

\* the advertisement text of C9
TrunksDeliveredPromptly == <<"t","r","u","n","k","s"," ","d","e","l","i","v","e","r","e","d"," ","p","r","o","m","p","t","l","y">>

\* C9: advertisement exclusion. No line that holds "trunks delivered promptly" in any
\* letter case gets a record, whatever else it holds.
C9_AdvertisementExclusion ==
  \A k \in Processed :
    str_in(TrunksDeliveredPromptly, str_lower(file_lines[k])) => k \in Rejected

\* C9 witness: the loop has passed a line that holds the advertisement text and also
\* a "see also" reference, a surname, an occupation keyword and an address
C9_Witness ==
  \E k \in Rejected :
    /\ str_in(TrunksDeliveredPromptly, str_lower(file_lines[k]))
    /\ str_in(SeeAlso, str_lower(file_lines[k]))
    /\ starts_with_surname(file_lines[k])
    /\ has_occupation(str_lower(file_lines[k]))
    /\ has_address(str_lower(file_lines[k]))

\* C5: hyphen continuation. With the default configuration the two physical lines
\* "Ander-" and "son, John clerk" are cleaned to the one logical line
\* "Anderson, John clerk": the hyphen is deleted and no space is put in.
C5_HyphenContinuation ==
  (/\ pc = "cleaned"
   /\ cleaner_config = DefaultConfig
   /\ raw_text = <<"A","n","d","e","r","-","\n","s","o","n",","," ","J","o","h","n"," ","c","l","e","r","k">>)
  => cleaned_text = <<"A","n","d","e","r","s","o","n",","," ","J","o","h","n"," ","c","l","e","r","k">>

\* C6: idempotence of the Line Normalizer. Cleaning a text that clean_text has
\* returned gives that text again.
C6_CleanIdempotent ==
  pc = "recleaned" => recleaned_text = cleaned_text

\* C10: for every configured minimum line length m, no record is made from a line
\* whose trimmed length is below m.
C10_ShortLineNoRecord ==
  \A n \in DOMAIN self_entries :
    Len(str_strip(RawText(n))) >= cleaner_config.min_line_length

\* the externally visible fields of a record
ExternalFields ==
  {"FirstName", "LastName", "Spouse", "Occupation", "CompanyName", "HomeAddress",
   "WorkAddress", "Telephone", "DirectoryName", "PageNumber"}

\* the records of all the files written to the output directory
SerializedRecords ==
  UNION {{output_dir[f][k] : k \in DOMAIN output_dir[f]} : f \in DOMAIN output_dir}

\* C11 as stated: the records a parse returns to its caller, like the serialized
\* ones, carry the externally visible fields only.
C11_ReturnedRecordsExternalOnly ==
  /\ pc = "returned" => \A n \in DOMAIN self_entries : DOMAIN self_entries[n] = ExternalFields
  /\ \A r \in SerializedRecords : DOMAIN r = ExternalFields

\* C11, amended: every record save_to_json writes to a file carries exactly the ten
\* externally visible fields, while every record of the list parse_text_file returns
\* still carries the three internal fields besides them.
C11_SerializedRecordsExternalOnly ==
  /\ \A r \in SerializedRecords : DOMAIN r = ExternalFields
  /\ pc \in {"returned", "saved"} =>
       \A n \in DOMAIN self_entries :
         DOMAIN self_entries[n] = ExternalFields \cup InternalKeys

\* C11 witness: a page whose two lines gave records has been returned and saved
C11_Witness ==
  /\ pc = "saved"
  /\ Len(self_entries) = 2
  /\ Len(output_dir[OutputFile]) = 2

\* the fields of a home address
AddressFields == {"StreetNumber", "StreetName", "ApartmentOrUnit", "ResidenceIndicator"}

\* C12: in every emitted record HomeAddress has exactly the four fields
\* StreetNumber, StreetName, ApartmentOrUnit and ResidenceIndicator, each a string
\* that may be empty; neither the structure nor a field of it is null.
C12_HomeAddressShape ==
  \A n \in DOMAIN self_entries :
    /\ DOMAIN self_entries[n].HomeAddress = AddressFields
    /\ \A f \in AddressFields : self_entries[n].HomeAddress[f] \in Seq(AllCh)

\* C12 witness: one page has a record whose address has a number, a street, a unit
\* and an indicator, and a record whose address is all empty
C12_Witness ==
  /\ \E n \in DOMAIN self_entries :
       \A f \in AddressFields : self_entries[n].HomeAddress[f] # <<>>
  /\ \E n \in DOMAIN self_entries :
       \A f \in AddressFields : self_entries[n].HomeAddress[f] = <<>>

\* the lines the filter of parse_line turns down
FilteredOut(line) == Len(line) < MinParseLength \/ ~is_resident_line(line)

\* C13: a parse emits at most one record per line, in the order of the lines: the
\* line numbers of the records are strictly increasing, each record is that of the
\* line its number names, and a rejected line has no record.
C13_OneRecordPerLineInOrder ==
  /\ \A i, j \in DOMAIN self_entries :
       i < j => self_entries[i]["_line_number"] < self_entries[j]["_line_number"]
  /\ \A n \in DOMAIN self_entries :
       /\ self_entries[n]["_line_number"] \in Processed
       /\ RawText(n) = file_lines[self_entries[n]["_line_number"]]
  /\ \A k \in Processed :
       /\ Cardinality(RecordsOfLine(k)) <= 1
       /\ FilteredOut(file_lines[k]) => RecordsOfLine(k) = {}

\* C13 witness: a page of two lines, the first of them rejected, has been returned
\* with the one record of the second line
C13_Witness ==
  /\ pc = "returned"
  /\ Len(file_lines) = 2
  /\ FilteredOut(file_lines[1])
  /\ Accepted = {2}
  /\ Len(self_entries) = 1

\* the page numbers of a set in ascending order
RECURSIVE ascending(_)
ascending(numbers) ==
  IF numbers = {} THEN <<>>
  ELSE LET least == CHOOSE n \in numbers : \A m \in numbers : n <= m
       IN <<least>> \o ascending(numbers \ {least})

\* the pages whose records have been saved to the output directory
SavedPages == {n \in PageNumbers : page_file(n) \in DOMAIN output_dir}

\* the records of the saved pages, page after page in the given order
RECURSIVE RecordsOfPages(_, _)
RecordsOfPages(pages, i) ==
  IF i > Len(pages) THEN <<>>
  ELSE output_dir[page_file(pages[i])] \o RecordsOfPages(pages, i + 1)

\* C14: the combined output is the concatenation of the per-page record sequences
\* in ascending page-number order, nothing dropped, duplicated or merged
C14_CombinedInPageOrder ==
  pc = "combined" => final_output = RecordsOfPages(ascending(SavedPages), 1)

\* the page sequence number the name of the parsed file was made from, if any
SeqOfFile == {page_seq \in PageSeqs : file_path = scan_text_file(page_seq)}

\* C15: when the name of the parsed file holds a four-digit page number, every
\* record of the parse has that PageNumber; when it holds none, PageNumber is null
C15_PageNumberFromFilename ==
  \A n \in DOMAIN self_entries :
    /\ \A page_seq \in SeqOfFile : self_entries[n].PageNumber = int_str(page_seq)
    /\ file_path = UnnumberedFile => self_entries[n].PageNumber = None

\* what a parser of its own has made of the lines of the task the loop has passed
OwnEntries(task) ==
  parse_lines_from(DefaultYear, <<>>, <<>>, <<>>,
                   SubSeq(batch_tasks[task].lines, 1, batch_tasks[task].line_num - 1), 1,
                   batch_tasks[task].page_number)

\* C16: in the thread pool each page task has a parser of its own: in every
\* interleaving the entries of a task's parser are those of the lines of that task
\* alone, and what the task returns are the entries of a sequential parse of its text
C16_TasksUseOwnParser ==
  \A task \in Tasks :
    /\ batch_tasks[task].pc = "parsing" =>
         batch_parsers[parser_of(task)].entries = OwnEntries(task)
    /\ batch_tasks[task].pc = "returned" =>
         batch_tasks[task].entries =
           parse_text_file(DefaultYear, batch_tasks[task].path, batch_tasks[task].text)

\* a task has returned two records, the second with the surname inherited from its
\* first line, after steps taken while the other task was in its loop
C16_Witness ==
  /\ batch_tasks[1].pc = "returned"
  /\ batch_tasks[1].overlapped
  /\ batch_tasks[2].pc = "parsing"
  /\ batch_tasks[2].line_num = 2
  /\ Len(batch_tasks[1].entries) = 2
  /\ batch_tasks[1].entries[2].LastName = <<"S","m","i","t","h">>
  /\ Len(batch_parsers[parser_of(2)].entries) = 1
  /\ batch_parsers[parser_of(2)].entries[1].LastName = <<>>

\* the record the loop has just emitted, if the line it has just dealt with got one
JustEmitted ==
  {n \in DOMAIN self_entries :
     n = Len(self_entries) /\ self_entries[n]["_line_number"] = loop_line_num - 1}

\* C17: after a record is emitted for a line in which address extraction found an
\* address, the current address of the parser is that address, ready to be inherited
\* by the following lines of the page
C17_CurrentAddressUpdated ==
  \A n \in JustEmitted :
    AddressOfLine(RawText(n)).StreetName # <<>> =>
      /\ self_current_address # <<>>
      /\ parse_address_components(self_current_address).StreetName =
           self_entries[n].HomeAddress.StreetName

\* the leading whitespace-delimited token of the text before the first ", " of a
\* line, empty when there is none
TokensBeforeComma(line) == str_split_ws(str_split(line, <<","," ">>, 0 - 1, 1)[1], 1)
LeadingToken(line) ==
  IF TokensBeforeComma(line) = <<>> THEN <<>> ELSE TokensBeforeComma(line)[1]

\* the occupation-style tokens that are not taken for surnames
OccupationStyleTokens ==
  {<<"c","l","k">>, <<"l","a","b">>, <<"t","m","s","t","r">>, <<"m","a","c","h">>, <<"e","n","g">>, <<"s","t","u","d","e","n","t">>, <<"m","o","v","e","d">>, <<"d","i","e","d">>}

\* the test C18 gives for a line that starts a new record
LeadingTokenIsSurname(line) ==
  /\ Len(LeadingToken(line)) > 1
  /\ LeadingToken(line)[1] \in UpperCh
  /\ str_lower(LeadingToken(line)) \notin OccupationStyleTokens

\* C18: a line is taken to start a new record exactly when its leading token is
\* longer than one character, starts with an uppercase letter and is no
\* occupation-style token, however many tokens precede the first comma; the record of
\* a line that is not taken to start one has the note of the inherited surname
C18_StartsNewRecord ==
  \A n \in DOMAIN self_entries :
    LeadingTokenIsSurname(RawText(n)) <=> NoteInheritedSurname \notin NotesOf(self_entries[n])

\* the lines the loop has dealt with that are long enough and hold "see also"
SeeAlsoLines ==
  {k \in Processed : /\ Len(file_lines[k]) >= MinParseLength
                     /\ str_in(SeeAlso, file_lines[k])}

\* C19 as stated: every line of at least the minimum length that holds "see also"
\* gets a record, whatever else it holds
C19_SeeAlsoAlwaysAccepted == \A k \in SeeAlsoLines : k \in Accepted

\* C19: every line of at least the minimum length that holds "see also" and none of
\* the advertisement patterns gets a record, whatever else it holds
C19_SeeAlsoAcceptedUnlessAd ==
  \A k \in SeeAlsoLines :
    ~any_in(ad_patterns, str_lower(file_lines[k])) =>
      \E n \in DOMAIN self_entries :
        self_entries[n]["_line_number"] = k /\ RawText(n) = file_lines[k]

\* a "see also" line with no comma, apostrophe, uppercase letter, occupation or
\* address has a record
C19_Witness ==
  \E n \in DOMAIN self_entries :
    /\ RawText(n) = <<"s","e","e"," ","a","l","s","o"," ","o","h","m">>
    /\ ~has_name_structure(RawText(n))
    /\ self_entries[n]["_line_number"] \in SeeAlsoLines

\* the words of a line in lower case, commas at their ends removed
WordsOf(line) ==
  {str_rstrip(str_split_ws(str_lower(line), 1)[i], {","}) :
     i \in DOMAIN str_split_ws(str_lower(line), 1)}

\* a residence-indicator keyword is one of the words of the line
HasIndicatorWord(line) ==
  \E i \in DOMAIN resident_residence_indicators :
    resident_residence_indicators[i] \in WordsOf(line)

\* C20: a line that is no "see also" line gets a record only if it has name structure
\* and holds a residence-indicator keyword as a word, an occupation keyword or an
\* address pattern
C20_RecordNeedsIndicator ==
  \A n \in DOMAIN self_entries :
    ~str_in(SeeAlso, str_lower(RawText(n))) =>
      /\ has_name_structure(RawText(n))
      /\ \/ HasIndicatorWord(RawText(n))
         \/ has_occupation(str_lower(RawText(n)))
         \/ has_address(str_lower(RawText(n)))

\* the cleaned lines of the text the cleaner was given, as they reach the merging
CleanedLines ==
  clean_lines_from(str_split(raw_text, <<"\n">>, 0 - 1, 1), 1, cleaner_config)

\* the tokens of a line, and the rules of C21 for a line that follows the logical
\* line prev
FirstToken(line) == str_split_ws(line, 1)[1]
LastToken(line) == str_split_ws(line, 1)[Len(str_split_ws(line, 1))]
BeginsWithQuote(line) == line[1] = "'"
EndsWithHyphen(prev) == prev[Len(prev)] = "-"
LooksContinued(line) ==
  \/ line[1] \in DigitCh \cup LowerCh
  \/ Len(line) < 16
  \/ FirstToken(line) \in {<<"C","o">>, <<"s","a","m","e">>, <<"C","o",",">>, <<"I","n","c">>, <<"L","t","d">>, <<"C","o","r","p">>}
LeadsOn(prev) ==
  \/ str_lower(LastToken(prev)) \in
       {<<"a","n","d">>, <<"t","h","e">>, <<"o","f">>, <<"i","n">>, <<"f","o","r">>, <<"t","o">>, <<"o","n">>, <<"a","t">>, <<"w","i","t","h">>,
        <<"b","y">>, <<"a","s">>, <<"i","s">>, <<"a","r","e">>, <<",">>}
  \/ \A i \in DOMAIN LastToken(prev) : LastToken(prev)[i] \in DigitCh

\* the rule C21 decides a line by: "new", "hyphen" or "space"
MergeRule(prev, line) ==
  IF BeginsWithQuote(line) THEN "new"
  ELSE IF EndsWithHyphen(prev) THEN "hyphen"
  ELSE IF LooksContinued(line) THEN "space"
  ELSE IF LeadsOn(prev) THEN "space"
  ELSE "new"

\* the logical lines C21 gives for the cleaned lines from the i-th on, logical being
\* those made so far
RECURSIVE MergedByRule(_, _, _)
MergedByRule(lines, i, logical) ==
  IF i > Len(lines) THEN logical
  ELSE IF logical = <<>> THEN MergedByRule(lines, i + 1, <<lines[i]>>)
  ELSE IF MergeRule(logical[Len(logical)], lines[i]) = "new"
       THEN MergedByRule(lines, i + 1, Append(logical, lines[i]))
  ELSE IF MergeRule(logical[Len(logical)], lines[i]) = "hyphen"
       THEN MergedByRule(lines, i + 1,
              [logical EXCEPT ![Len(logical)] = SubSeq(@, 1, Len(@) - 1) \o lines[i]])
  ELSE MergedByRule(lines, i + 1,
         [logical EXCEPT ![Len(logical)] = @ \o <<" ">> \o lines[i]])

\* C21: continuation merging decides each cleaned line by fixed rule priority: the
\* first line is new; a line that begins with a quote mark is new; else a line after
\* a hyphen is joined without a space; else a line that starts with a digit or a
\* lowercase letter, is shorter than 16 or starts with a continuation word is joined
\* with a space; else a line after a conjunction, preposition, comma or number is
\* joined with a space; else the line is new
C21_MergeRulePriority ==
  (pc = "cleaned" /\ ~cleaner_config.expand_abbreviations) =>
    cleaned_text = str_join(<<"\n">>, MergedByRule(CleanedLines, 1, <<>>))

\* a short line that begins with a quote mark follows a line that ends with a hyphen
\* and the two are kept as two logical lines
C21_Witness ==
  /\ pc = "cleaned"
  /\ ~cleaner_config.expand_abbreviations
  /\ CleanedLines = <<<<"A","n","d","e","r","-">>, <<"'","W","m"," ","c","l","e","r","k">>>>
  /\ cleaned_text = <<"A","n","d","e","r","-","\n","'","W","m"," ","c","l","e","r","k">>

\* the logical lines before abbreviation expansion, and the lines clean_text returned
LogicalLines == merged_if(cleaner_config, CleanedLines)
ReturnedLines == IF cleaned_text = <<>> THEN <<>> ELSE str_split(cleaned_text, <<"\n">>, 0 - 1, 1)

\* the keys of the Abbreviation Table that occur in a line as whole words, in any
\* letter case, and those of them that are made of more than one word
KeysIn(line) ==
  {i \in DOMAIN ABBREVIATIONS : re_search(RxWord(ABBREVIATIONS[i][1]), line, TRUE).ok}
MultiWordKeysIn(line) == {i \in KeysIn(line) : str_in(<<" ">>, ABBREVIATIONS[i][1])}

\* C22: abbreviation expansion replaces every whole-word occurrence of a key by the
\* expansion of that key, the keys of more than one word included ("e s" becomes
\* "east side"), and leaves a line in which no key occurs as it was
C22_KeysExpandToOwnExpansion ==
  (pc = "cleaned" /\ cleaner_config.expand_abbreviations) =>
    /\ Len(ReturnedLines) = Len(LogicalLines)
    /\ \A k \in DOMAIN LogicalLines :
         /\ \A i \in MultiWordKeysIn(LogicalLines[k]) :
              str_in(ABBREVIATIONS[i][2], ReturnedLines[k])
         /\ KeysIn(LogicalLines[k]) = {} => ReturnedLines[k] = LogicalLines[k]

\* the indicator tokens of C23 with their short codes
IndicatorCodes ==
  <<<<<<"b","o","a","r","d","s">>, <<"b">>>>, <<<<"r","e","s","i","d","e","n","c","e">>, <<"r">>>>, <<<<"r","o","o","m","s">>, <<"r","m","s">>>>,
    <<<<"r","m","s">>, <<"r","m","s">>>>, <<<<"h">>, <<"h">>>>>>

\* the indicator tokens that introduce an address in a line: the token as a word,
\* blanks, and a digit
RxIntroduces(token) ==
  <<ReWb, ReLit(token), ReRep(1, ReInf, <<ReSet(SpaceCh)>>), ReRep(1, 1, <<ReSet(DigitCh)>>)>>
IntroducingTokens(line) ==
  {i \in DOMAIN IndicatorCodes :
     re_search(RxIntroduces(IndicatorCodes[i][1]), str_lower(line), FALSE).ok}

\* C23: when a residence indicator introduces the address of a line, the
\* ResidenceIndicator of its record is the short code of that token (b, r, rms, h),
\* never a full word and never the code of another indicator
C23_IndicatorShortCode ==
  \A n \in DOMAIN self_entries :
    \A i \in IntroducingTokens(RawText(n)) :
      IntroducingTokens(RawText(n)) = {i} =>
        self_entries[n].HomeAddress.ResidenceIndicator = IndicatorCodes[i][2]


\* the method last called on the entry
LastCall == IF extractor_calls = <<>> THEN "" ELSE extractor_calls[Len(extractor_calls)]

\* the places in occupation_patterns of the patterns that occur in the text
OccurringPatterns ==
  {i \in DOMAIN occupation_patterns : re_search(occupation_patterns[i], extractor_text, TRUE).ok}

\* the earliest of them in list order, and its match
EarliestPattern == CHOOSE i \in OccurringPatterns : \A j \in OccurringPatterns : i <= j
EarliestMatch == re_search(occupation_patterns[EarliestPattern], extractor_text, TRUE)

\* C24: occupation extraction is first-match-wins over the ordered pattern list. After
\* a call of _extract_occupation_and_get_remaining, an Occupation that was set before
\* the call is as it was; otherwise, when no pattern occurs in the text, Occupation
\* and the returned remainder are unchanged, and when some pattern occurs, Occupation
\* is the Abbreviation-Table expansion of the match of the pattern that is earliest
\* in the list, wherever in the text the patterns occur.
C24_FirstListedPatternWins ==
  LastCall = "occupation" =>
    IF extractor_before.Occupation # <<>>
    THEN extractor_entry.Occupation = extractor_before.Occupation
    ELSE IF OccurringPatterns = {}
    THEN /\ extractor_entry.Occupation = extractor_before.Occupation
         /\ extractor_remaining = extractor_text
    ELSE extractor_entry.Occupation =
           abbreviations_get(str_lower(re_group(extractor_text, EarliestMatch, 1)),
                             re_group(extractor_text, EarliestMatch, 1))

\* a call on an entry without occupation for a text in which a pattern later in the
\* list occurs before the earliest-listed one
C24_Witness ==
  /\ LastCall = "occupation"
  /\ extractor_before.Occupation = <<>>
  /\ \E j \in OccurringPatterns :
       /\ j > EarliestPattern
       /\ re_search(occupation_patterns[j], extractor_text, TRUE).b < EarliestMatch.b
  /\ extractor_entry.Occupation # <<>>

\* the physical lines of the text the cleaner was given
PhysicalLines == IF raw_text = <<>> THEN <<>> ELSE str_split(raw_text, <<"\n">>, 0 - 1, 1)

\* a physical line that is shorter than the minimum, and one made only of noise
\* characters, of characters outside the allowed leading set and of spaces
ShorterThanMinimum(line) == Len(str_strip(line)) < cleaner_config.min_line_length
OnlyNoise(line) ==
  \A k \in DOMAIN line : line[k] \in noise_characters \/ line[k] \notin allowed_leading

\* clean_text has returned for a text
Normalized == pc \in {"cleaned", "recleaned"} /\ raw_text # None

ExtractedFields(entry) ==
  <<entry.Occupation, entry.CompanyName, entry.Spouse, entry.HomeAddress>>

\* the last call repeated the call before it, with the same text on the same entry
Repeated(method) ==
  /\ Len(extractor_calls) >= 2
  /\ extractor_calls[Len(extractor_calls)] = method
  /\ extractor_calls[Len(extractor_calls) - 1] = method

\* C26: the operations of the Field Extractor are idempotent. When
\* parse_occupation_and_employer or extract_address_info is called a second time on
\* the same record with the same text, Occupation, CompanyName, Spouse and
\* HomeAddress are as the first call left them.
C26_SecondCallChangesNothing ==
  Repeated("employer") \/ Repeated("address") =>
    ExtractedFields(extractor_entry) = ExtractedFields(extractor_before)

\* what extract_telephone finds in the line of the n-th record: the token after the
\* "tel" marker, None when the line has no such marker
TelephoneOfLine(n) ==
  extract_telephone(JSON_OUTPUT_FORMAT, RawText(n)).Telephone

\* C27: the Telephone of every record is the token that follows the "tel" marker in
\* its line, up to the next comma or whitespace, and null when the line has no marker.
C27_TelephoneFromMarker ==
  \A n \in DOMAIN self_entries : self_entries[n].Telephone = TelephoneOfLine(n)

\* the lines in order as one text, and a text without its spaces
RECURSIVE Concatenated(_)
Concatenated(lines) ==
  IF lines = <<>> THEN <<>> ELSE Head(lines) \o Concatenated(Tail(lines))
WithoutSpaces(text) == SelectSeq(text, LAMBDA c : c # " ")

\* the cleaned lines after which a hyphen-merge takes place: they end with a hyphen
\* and the line that follows does not begin with a quote mark
HyphenMerged ==
  {i \in 1..(Len(CleanedLines) - 1) :
     EndsWithHyphen(CleanedLines[i]) /\ ~BeginsWithQuote(CleanedLines[i + 1])}

\* the cleaned lines without the hyphen that each hyphen-merge deletes
HyphensDeleted ==
  [i \in DOMAIN CleanedLines |->
     IF i \in HyphenMerged THEN SubSeq(CleanedLines[i], 1, Len(CleanedLines[i]) - 1)
     ELSE CleanedLines[i]]

\* C28: continuation merging conserves text. The logical lines are at most as many
\* as the cleaned lines, and put together in order without spaces they are the
\* cleaned lines put together in order without spaces, but for the one hyphen that
\* each hyphen-merge deletes: no line is dropped, duplicated or reordered.
C28_MergingConservesText ==
  (Normalized /\ ~cleaner_config.expand_abbreviations) =>
    /\ Len(ReturnedLines) <= Len(CleanedLines)
    /\ WithoutSpaces(Concatenated(ReturnedLines)) =
         WithoutSpaces(Concatenated(HyphensDeleted))

\* two cleaned lines merged into one logical line by a hyphen-merge
C28_Witness ==
  /\ Normalized
  /\ ~cleaner_config.expand_abbreviations
  /\ Len(CleanedLines) = 2
  /\ HyphenMerged = {1}
  /\ Len(ReturnedLines) = 1

\* str(item) for the items process_items was called with
ItemKeys == {int_str(job_items[k]) : k \in DOMAIN job_items}

\* C29: process_items returns a mapping with the key str(item) for every item it was
\* called with, the value being the result of process_func or None when it raised,
\* whatever checkpoint was stored under the job name, and it ends by saving a
\* checkpoint that is marked completed and whose last_index is the number of items.
C29_EveryItemReturned ==
  job_pc = "returned" =>
    /\ \A k \in DOMAIN job_items :
         /\ int_str(job_items[k]) \in DOMAIN job_returned[1]
         /\ job_returned[1][int_str(job_items[k])] = process_result(job_items[k])
    /\ checkpoint_file # <<>>
    /\ checkpoint_file[1].completed
    /\ checkpoint_file[1].last_index = Len(job_items)

\* what save_to_json writes for the OCR text of one column image
RecordsOfImage(image_file) ==
  cleaned_entries(parse_text_file(DefaultYear, ocr_text_file(image_file), OcrText(image_file)))

\* C30: page_p.json holds only records derived from the OCR text of the column
\* images of page p itself, also when column images of other pages are in the
\* shared directory: what a call of process_single_page(p) wrote is what the parser
\* gives for the text of one of the two column images of page p.
C30_OwnPageOnly ==
  \A page_number \in Pages :
    page_file(page_number) \in DOMAIN output_dir =>
      \E column \in column_images_of(page_number) :
        output_dir[page_file(page_number)] = RecordsOfImage(column)
====
